---- MODULE Spec2Model ----
(***************************************************************************)
(* Store registry, upload pipeline and background indexing verifier of     *)
(* src/src/lib/gemini-file-search.ts, and the query orchestrator of        *)
(* src/src/lib/rag.ts with the streams it returns, as a state machine.     *)
(*                                                                         *)
(* Node runs every handler to completion: a step of the model is the code  *)
(* that runs from one wake-up (a request arriving, a backend or file       *)
(* system answer, a timer) to the next suspension on something that is not *)
(* settled yet.  Continuations of an already settled promise are           *)
(* microtasks: they run before any further wake-up, which the guard        *)
(* Quiescent states.                                                       *)
(***************************************************************************)
EXTENDS Integers, Sequences, FiniteSets, TLC

(* ------------------------------ bounds -------------------------------- *)

\* Number of calls (uploads or direct store resolutions) of a run of
\* SpecStore and of SpecCollide.
MaxCalls == 3

\* Number of calls of a run of Spec, where every call runs its whole
\* pipeline under every answer of the environment.
MaxPipelines == 2

\* Requests to the upload endpoint.
MaxRequests == 6

\* Last value Date.now() returns in a run.
MaxTime == 1

\* Number of poll turns of a run of Spec that leave their loop running.
MaxPending == 1

\* Number of failures (errors thrown or reported by the environment) of a
\* run of Spec.
MaxFaults == 1

\* Number of chunks a candidate's response yields at most.
MaxChunks == 3

(* --------------------------- program constants ------------------------ *)

\* const maxAttempts = 60: ceiling of the import-operation polling loop.
maxAttempts == 60

\* const maxCheckAttempts = 60: ceiling of the verifier's polling loop.
maxCheckAttempts == 60

\* if (checkAttempts >= 6): grace period of a verifier without document name.
graceAttempts == 6

\* const RATE_LIMIT_WINDOW = 60 * 1000, in milliseconds
RATE_LIMIT_WINDOW == 60000

\* const MAX_UPLOADS_PER_WINDOW = 5
MAX_UPLOADS_PER_WINDOW == 5

(* ------------------------------ inputs -------------------------------- *)

\* User identifiers are opaque strings; "u" and "u_b" are two distinct ones.
Users == {"u", "u_b"}

FileNames == {"n.txt", "b_n.txt"}

\* fileBuffer.length
Sizes == {1}

\* Texts the backend may put in an error; the second one contains the
\* substring 'already exists'.
BackendErrors == { <<"backend unavailable">>, <<"already exists">> }

\* Error of fs.writeFile.
FsErrors == { <<"ENOSPC: no space left on device">> }

\* Error of getGoogleApiKey() when the environment lacks the key.
EnvError == <<"Missing required environment variables: ", "GOOGLE_API_KEY">>

\* Names of the documents an import operation's response may carry; "" is
\* a response without a document name.
DocumentNames == {"", "documents/d"}

\* document states of client.files.get
FileStates == {"ACTIVE", "FAILED", "PROCESSING", "STATE_UNSPECIFIED"}

\* Errors of client.files.get: status and message text.
LookupErrors ==
    { [status |-> 404, message |-> <<"not found">>],
      [status |-> 403, message |-> <<"permission denied">>],
      [status |-> 500, message |-> <<"internal error">>],
      [status |-> 400,
       message |-> <<"FAILED", "_PRECONDITION: file is not in a store">>] }

(* ------------------------------ helpers ------------------------------- *)

\* A message is a sequence of text fragments; String.includes on a fragment.
Includes(message, fragment) == \E i \in 1..Len(message) : message[i] = fragment

\* undefined error message
NoMessage == << >>

\* null store name
NoStoreName == "null"

\* Map.set
Put(map, key, value) ==
    [x \in (DOMAIN map) \cup {key} |-> IF x = key THEN value ELSE map[x]]

\* Map.delete
Remove(map, key) == [x \in (DOMAIN map) \ {key} |-> map[x]]

\* new Map()
EmptyMap == [x \in {} |-> 0]

\* const fileKey = `${userId}_${fileName}_${fileBuffer.length}`
fileKey(userId, fileName, size) ==
    userId \o "_" \o fileName \o "_" \o ToString(size)

\* const uniqueFileName = `${userId}_${Date.now()}_${fileName}`
uniqueFileName(userId, time, fileName) ==
    userId \o "_" \o ToString(time) \o "_" \o fileName

\* Name the backend gives to the store made by its n-th creation call.
BackendStoreName(n) == "fileSearchStores/" \o ToString(n)

\* userStore?.name || null
StoreNameOf(stores, userId) ==
    IF userId \in DOMAIN stores THEN stores[userId].name ELSE NoStoreName

(* ------------------------------- state -------------------------------- *)

VARIABLES
    ai,                     \* let ai: the client is initialised
    userFileStores,         \* Map<userId, store>
    storeCreationPromises,  \* Map<userId, Promise<store>>: the promise's id
    uploadedFiles,          \* Map<fileKey, record>
    promise,                \* promise[c]: creation promise made by call c
    awaiting,               \* the creation promise each call awaits
    pc,                     \* where each call is suspended
    args,                   \* each call's kind and arguments
    existingFile,           \* upload's local: record seen by the first check
    store,                  \* upload's local: name of the handle line 127 got
    opAttempts,             \* upload's local: attempts
    tempPath,               \* upload's local: tempPath
    result,                 \* what the call returned or threw
    vpc,                    \* where each upload's verifier is suspended
    verifier,               \* verifier's locals
    tempFiles,              \* files of os.tmpdir()
    now,                    \* the value the clock returned when last read
    createCalls,            \* backend: fileSearchStores.create calls per user
    imports,                \* backend: calls that submitted an import
    lastAnswer,             \* backend: its last word on each call's import
    lookups,                \* backend: calls whose verifier looked a file up
    query,                  \* query's locals: question, candidates tried
    stream,                 \* the ReadableStream each query returned
    peers,                  \* calls in progress when each call started
    callsLeft,              \* calls that may still arrive
    patience,               \* poll turns that may still leave a loop running
    uploadTimestamps,       \* Map<userId, number[]> of the upload endpoint
    post,                   \* each request to the upload endpoint
    faults                  \* failures the environment may still produce

vars == << ai, userFileStores, storeCreationPromises, uploadedFiles, promise,
           awaiting, pc, args, existingFile, store, opAttempts, tempPath,
           result, vpc, verifier, tempFiles, now, createCalls, imports,
           lastAnswer, lookups, query, stream, peers, callsLeft, patience,
           uploadTimestamps, post, faults >>

\* The state of the upload endpoint.
endpoint == << uploadTimestamps, post >>

\* The slots of the calls: one for each call that may arrive.
Calls == DOMAIN pc

NoArgs == [kind |-> "none", userId |-> "", fileName |-> "", size |-> 0]

NoResult == [outcome |-> "none", isDuplicate |-> FALSE,
             storeName |-> NoStoreName, message |-> NoMessage]

NoPromise == [state |-> "none", userId |-> "", storeName |-> NoStoreName,
              message |-> NoMessage]

\* What the backend last said about an import: nothing yet, the operation
\* (its done flag and its error), or an error thrown by the call.
NoAnswer == [kind |-> "none", done |-> FALSE, error |-> NoMessage]

Answered(op) == [kind |-> "operation", done |-> op.done, error |-> op.error]

Threw(e) == [kind |-> "thrown", done |-> FALSE, error |-> e]

\* No error: an error is its status, its code and its message text.
NoError == [status |-> 0, code |-> 0, message |-> NoMessage]

\* Locals of a query not made: its question, the candidates it called
\* generateContentStream with, and lastError.
NoQuery == [question |-> "", tried |-> << >>, lastError |-> NoError]

\* No ReadableStream.  A stream is its state ("readable", "closed" by its
\* source, "cancelled" by its reader, "errored"), what feeds it (source),
\* the candidate whose response it carries, the pieces its source has still
\* to write, the text written to it, the text of the chunks its source has
\* consumed, their number, the number of those consumed after the reader
\* cancelled, and whether its source is still running.
NoStream == [state |-> "none", source |-> "none", model |-> "",
             pieces |-> << >>, written |-> "", expected |-> "",
             consumed |-> 0, late |-> 0, running |-> FALSE]

NoVerifier == [fileDocumentName |-> "", checkAttempts |-> 0,
               fileReady |-> FALSE]

\* A request to the upload endpoint: where it is ("none": not made,
\* "checked": past the rate limit, "answered"), the user auth() gave, what
\* Date.now() gave to checkRateLimit, and the answer's status and fields.
NoPost == [state |-> "none", userId |-> "", at |-> 0, status |-> 0,
           isDuplicate |-> FALSE, processingStatus |-> ""]

InitSlots(slots, calls, pending, failures) ==
    /\ pc = [c \in slots |-> "idle"]
    /\ ai = FALSE
    /\ userFileStores = EmptyMap
    /\ storeCreationPromises = EmptyMap
    /\ uploadedFiles = EmptyMap
    /\ promise = [c \in slots |-> NoPromise]
    /\ awaiting = [c \in slots |-> 0]
    /\ args = [c \in slots |-> NoArgs]
    /\ existingFile = [c \in slots |-> {}]
    /\ store = [c \in slots |-> NoStoreName]
    /\ opAttempts = [c \in slots |-> 0]
    /\ tempPath = [c \in slots |-> ""]
    /\ result = [c \in slots |-> NoResult]
    /\ vpc = [c \in slots |-> "none"]
    /\ verifier = [c \in slots |-> NoVerifier]
    /\ tempFiles = {}
    /\ now = 0
    /\ createCalls = [u \in Users |-> 0]
    /\ imports = {}
    /\ lastAnswer = [c \in slots |-> NoAnswer]
    /\ lookups = {}
    /\ query = [c \in slots |-> NoQuery]
    /\ stream = [c \in slots |-> NoStream]
    /\ peers = [c \in slots |-> {}]
    /\ callsLeft = calls
    /\ patience = pending
    /\ faults = failures
    /\ uploadTimestamps = EmptyMap
    /\ post = [c \in slots |-> NoPost]

InitWith(calls, pending, failures) ==
    InitSlots(1..MaxCalls, calls, pending, failures)

Init == InitWith(MaxPipelines, MaxPending, MaxFaults)

(* -------------------------- scheduling -------------------------------- *)

Settled(q) == promise[q].state \in {"resolved", "rejected"}

\* No continuation of a settled promise is waiting to run: the microtask
\* queue is empty, so the event loop may take the next wake-up.
Quiescent ==
    \A c \in Calls :
        /\ pc[c] = "awaitStore" => ~Settled(awaiting[c])
        /\ post[c].state = "checked" => pc[c] # "done"

\* Calls arrive one per slot, in slot order.
MayStart(c) ==
    /\ pc[c] = "idle"
    /\ \A d \in Calls : d < c => pc[d] # "idle"
    /\ Quiescent
    /\ callsLeft > 0
    /\ callsLeft' = callsLeft - 1

InProgress == {d \in Calls : pc[d] \notin {"idle", "done"}}

Returned(storeName, isDuplicate) ==
    [outcome |-> "success", isDuplicate |-> isDuplicate,
     storeName |-> storeName, message |-> NoMessage]

Thrown(message) ==
    [outcome |-> "thrown", isDuplicate |-> FALSE,
     storeName |-> NoStoreName, message |-> message]

\* The environment produces a failure, or none, in this step.
Fault == faults > 0 /\ faults' = faults - 1

NoFault == faults' = faults

\* A poll turn leaves its loop running, or not.
GoesOn == patience > 0 /\ patience' = patience - 1

Concludes == patience' = patience

(* ---------------------------- getAI ----------------------------------- *)

\* Outcomes of getAI(): TRUE the client exists or is made now, FALSE
\* getGoogleApiKey() throws.  A client once made is kept.
getAI == IF ai THEN {TRUE} ELSE BOOLEAN

(* ----------------------- getOrCreateFileSearchStore ------------------- *)

\* getOrCreateFileSearchStore without the check of lines 51-54: a call that
\* finds no cached store starts a creation, in flight or not.
StoreEntryWithoutMarker(userId) ==
    IF userId \in DOMAIN userFileStores THEN "cached" ELSE "create"

\* How a call of getOrCreateFileSearchStore(userId) goes on:
\* "cached"  userFileStores.has(userId)
\* "wait"    storeCreationPromises.has(userId), the promise is pending
\* "settled" storeCreationPromises.has(userId), the promise is settled
\* "create"  neither: a creation task is started
StoreEntry(userId) ==
    IF userId \in DOMAIN userFileStores THEN "cached"
    ELSE IF userId \in DOMAIN storeCreationPromises
         THEN IF Settled(storeCreationPromises[userId]) THEN "settled"
              ELSE "wait"
         ELSE "create"

\* Lines 57-98 with a working client: the task passes `await getAI()`,
\* finds no store in its double check, calls fileSearchStores.create and
\* suspends on it; the caller stores the promise and awaits it.
StartCreation(c, userId) ==
    /\ promise' = [promise EXCEPT ![c] =
                      [state |-> "pending", userId |-> userId,
                       storeName |-> NoStoreName, message |-> NoMessage]]
    /\ storeCreationPromises' = Put(storeCreationPromises, userId, c)
    /\ createCalls' = [createCalls EXCEPT ![userId] = @ + 1]
    /\ awaiting' = [awaiting EXCEPT ![c] = c]

\* Lines 57-98 when getAI() throws in the task: `await getAI()` is outside
\* the try, so the task's promise rejects without running the finally; the
\* caller has stored the promise by then.
CreationFailsAtClient(c, userId) ==
    /\ promise' = [promise EXCEPT ![c] =
                      [state |-> "rejected", userId |-> userId,
                       storeName |-> NoStoreName, message |-> EnvError]]
    /\ storeCreationPromises' = Put(storeCreationPromises, userId, c)
    /\ UNCHANGED << createCalls, awaiting >>

\* Lines 51-54: wait for the creation in flight.
WaitForCreation(c, userId) ==
    /\ awaiting' = [awaiting EXCEPT ![c] = storeCreationPromises[userId]]
    /\ UNCHANGED << promise, storeCreationPromises, createCalls >>

\* A direct call getOrCreateFileSearchStore(userId), as queryRAG and
\* verifyStoreHasFiles make it.
StartResolve(c, userId) ==
    /\ MayStart(c)
    /\ args' = [args EXCEPT ![c] = [kind |-> "resolve", userId |-> userId,
                                    fileName |-> "", size |-> 0]]
    /\ peers' = [peers EXCEPT ![c] = InProgress]
    /\ \/ /\ StoreEntry(userId) = "cached"
          /\ result' = [result EXCEPT ![c] =
                           Returned(userFileStores[userId].name, FALSE)]
          /\ pc' = [pc EXCEPT ![c] = "done"]
          /\ UNCHANGED << ai, promise, storeCreationPromises, createCalls,
                          awaiting, faults >>
       \/ /\ StoreEntry(userId) = "wait"
          /\ WaitForCreation(c, userId)
          /\ pc' = [pc EXCEPT ![c] = "awaitStore"]
          /\ UNCHANGED << ai, result, faults >>
       \/ /\ StoreEntry(userId) = "settled"
          /\ result' = [result EXCEPT ![c] =
                  Thrown(promise[storeCreationPromises[userId]].message)]
          /\ pc' = [pc EXCEPT ![c] = "done"]
          /\ UNCHANGED << ai, promise, storeCreationPromises, createCalls,
                          awaiting, faults >>
       \/ /\ StoreEntry(userId) = "create"
          /\ \E clientOk \in getAI :
                IF clientOk
                THEN /\ ai' = TRUE
                     /\ StartCreation(c, userId)
                     /\ pc' = [pc EXCEPT ![c] = "awaitStore"]
                     /\ UNCHANGED result
                     /\ NoFault
                ELSE /\ CreationFailsAtClient(c, userId)
                     /\ result' = [result EXCEPT ![c] = Thrown(EnvError)]
                     /\ pc' = [pc EXCEPT ![c] = "done"]
                     /\ UNCHANGED ai
                     /\ Fault
    /\ UNCHANGED << userFileStores, uploadedFiles, existingFile, store, lastAnswer,
                    opAttempts, tempPath, vpc, verifier, tempFiles, now,
                    imports, patience >>
    /\ UNCHANGED << lookups, query, stream >>
    /\ UNCHANGED endpoint

\* The backend answers fileSearchStores.create: lines 72-94.
CreateReturns(q) ==
    /\ Quiescent
    /\ promise[q].state = "pending"
    /\ LET userId == promise[q].userId IN
       \/ /\ userFileStores' =
                 Put(userFileStores, userId, [name |-> BackendStoreName(q)])
          /\ promise' = [promise EXCEPT ![q].state = "resolved",
                                        ![q].storeName = BackendStoreName(q)]
          /\ storeCreationPromises' = Remove(storeCreationPromises, userId)
          /\ NoFault
       \/ /\ \E e \in BackendErrors :
                promise' = [promise EXCEPT ![q].state = "rejected",
                                           ![q].message = e]
          /\ storeCreationPromises' = Remove(storeCreationPromises, userId)
          /\ UNCHANGED userFileStores
          /\ Fault
    /\ UNCHANGED << ai, uploadedFiles, awaiting, pc, args, existingFile, store, lastAnswer,
                    opAttempts, tempPath, result, vpc, verifier, tempFiles,
                    now, createCalls, imports, peers, callsLeft, patience >>
    /\ UNCHANGED << lookups, query, stream >>
    /\ UNCHANGED endpoint

\* A direct caller resumes from `await creationPromise`.
ResumeResolve(c) ==
    /\ pc[c] = "awaitStore"
    /\ args[c].kind = "resolve"
    /\ Settled(awaiting[c])
    /\ result' = [result EXCEPT ![c] =
          IF promise[awaiting[c]].state = "resolved"
          THEN Returned(promise[awaiting[c]].storeName, FALSE)
          ELSE Thrown(promise[awaiting[c]].message)]
    /\ pc' = [pc EXCEPT ![c] = "done"]
    /\ awaiting' = [awaiting EXCEPT ![c] = 0]
    /\ UNCHANGED << ai, userFileStores, storeCreationPromises, uploadedFiles,
                    promise, args, existingFile, store, lastAnswer, opAttempts,
                    tempPath, vpc, verifier, tempFiles, now, createCalls,
                    imports, peers, callsLeft, patience, faults >>
    /\ UNCHANGED << lookups, query, stream >>
    /\ UNCHANGED endpoint

(* ------------------------------ clock --------------------------------- *)

\* What Date.now() and new Date() may return: the clock never runs back.
Clock == now..MaxTime

(* ------------------------ updateFileProcessingStatus ------------------ *)

\* Lines 651-672: the table after updateFileProcessingStatus(userId,
\* fileName, fileSize, status, errorMessage).
updateFileProcessingStatus(files, userId, fileName, size, status, message) ==
    LET key == fileKey(userId, fileName, size) IN
    IF key \in DOMAIN files /\ files[key].userId = userId
    THEN [files EXCEPT ![key] = [@ EXCEPT !.processingStatus = status,
                                          !.errorMessage = message]]
    ELSE files

(* --------------------------- uploadFileToGemini ----------------------- *)

\* A record as lines 147-154 and 259-266 write it.
NewRecord(userId, fileName, size, time, storeName, status) ==
    [userId |-> userId, fileName |-> fileName, size |-> size,
     uploadedAt |-> time, storeName |-> storeName, fileDocumentName |-> "",
     processingStatus |-> status, errorMessage |-> NoMessage]

\* Line 256: the error text says the file exists already.
IsDuplicateError(message) ==
    Includes(message, "already exists") \/ Includes(message, "duplicate")

\* Lines 248-266: the table after the catch block has handled an error with
\* this message, starting from table `files`.
CatchFiles(files, a, message, time) ==
    LET marked == updateFileProcessingStatus(files, a.userId, a.fileName,
                                             a.size, "error", message)
    IN IF IsDuplicateError(message)
       THEN Put(marked, fileKey(a.userId, a.fileName, a.size),
                NewRecord(a.userId, a.fileName, a.size, time,
                          StoreNameOf(userFileStores, a.userId), "ready"))
       ELSE marked

\* Lines 268-277 with the test of line 256 always true: every error is
\* answered as a duplicate.
CatchResultAsDuplicate(a, message) ==
    Returned(StoreNameOf(userFileStores, a.userId), TRUE)

\* Lines 268-277 with the test of line 256 always false: every error is
\* thrown on.
CatchResultAsThrown(a, message) == Thrown(message)

\* Lines 268-277: what the catch block returns or throws.
CatchResult(a, message) ==
    IF IsDuplicateError(message)
    THEN Returned(StoreNameOf(userFileStores, a.userId), TRUE)
    ELSE Thrown(message)

\* Lines 114 and 132: a record of this user is under the key, and it is not
\* the object `seen` that the first check read.  A record of this user is
\* never the object the first check let pass (that one was missing or of
\* another user), so comparing the records' values decides `!==`.
IsTracked(files, a, seen) ==
    LET key == fileKey(a.userId, a.fileName, a.size) IN
    /\ key \in DOMAIN files
    /\ files[key].userId = a.userId
    /\ {files[key]} # seen

\* Lines 129-161, run once the store is resolved: the second duplicate
\* check, then the record is written as 'uploading' and fs.writeFile called.
AfterStore(c, seen, handle) ==
    LET a == args'[c]
        key == fileKey(a.userId, a.fileName, a.size)
    IN
    /\ store' = [store EXCEPT ![c] = handle]
    /\ IF IsTracked(uploadedFiles, a, seen)
       THEN /\ result' = [result EXCEPT ![c] =
                   Returned(StoreNameOf(userFileStores, a.userId), TRUE)]
            /\ pc' = [pc EXCEPT ![c] = "done"]
            /\ UNCHANGED << uploadedFiles, tempPath, now >>
       ELSE /\ now' \in Clock
            /\ uploadedFiles' = Put(uploadedFiles, key,
                   NewRecord(a.userId, a.fileName, a.size, now', handle,
                             "uploading"))
            /\ tempPath' = [tempPath EXCEPT ![c] =
                   uniqueFileName(a.userId, now', a.fileName)]
            /\ pc' = [pc EXCEPT ![c] = "writing"]
            /\ UNCHANGED result

\* Lines 248-278: the catch block handles an error with this message; the
\* step had made the table `files` by then.
UploadFailsFrom(c, files, message) ==
    /\ now' \in IF IsDuplicateError(message) THEN Clock ELSE {now}
    /\ uploadedFiles' = CatchFiles(files, args'[c], message, now')
    /\ result' = [result EXCEPT ![c] = CatchResult(args'[c], message)]
    /\ pc' = [pc EXCEPT ![c] = "done"]

UploadFails(c, message) == UploadFailsFrom(c, uploadedFiles, message)

\* uploadFileToGemini(fileBuffer, fileName, mimeType, userId) is called:
\* lines 103-127, and on when the store is there already.
StartUpload(c, userId, fileName, size) ==
    /\ MayStart(c)
    /\ userId # ""
    /\ args' = [args EXCEPT ![c] = [kind |-> "upload", userId |-> userId,
                                    fileName |-> fileName, size |-> size]]
    /\ peers' = [peers EXCEPT ![c] = InProgress]
    /\ LET key == fileKey(userId, fileName, size)
           seen == IF key \in DOMAIN uploadedFiles
                   THEN {uploadedFiles[key]} ELSE {}
       IN
       /\ \/ \* lines 114-124: tracked already
             /\ NoFault
             /\ UNCHANGED << existingFile, store >>
             /\ IsTracked(uploadedFiles, args'[c], {})
             /\ result' = [result EXCEPT ![c] =
                              Returned(StoreNameOf(userFileStores, userId), TRUE)]
             /\ pc' = [pc EXCEPT ![c] = "done"]
             /\ UNCHANGED << ai, promise, storeCreationPromises, createCalls,
                             awaiting, uploadedFiles, tempPath, now >>
          \/ \* line 126: getAI() throws
             /\ ~IsTracked(uploadedFiles, args'[c], {})
             /\ FALSE \in getAI
             /\ Fault
             /\ UNCHANGED << existingFile, store >>
             /\ UploadFails(c, EnvError)
             /\ UNCHANGED << ai, promise, storeCreationPromises, createCalls,
                             awaiting, tempPath >>
          \/ \* line 127, the store is cached
             /\ NoFault
             /\ UNCHANGED existingFile
             /\ ~IsTracked(uploadedFiles, args'[c], {})
             /\ TRUE \in getAI
             /\ StoreEntry(userId) = "cached"
             /\ ai' = TRUE
             /\ AfterStore(c, seen, userFileStores[userId].name)
             /\ UNCHANGED << promise, storeCreationPromises, createCalls,
                             awaiting >>
          \/ \* line 127, a creation is in flight
             /\ NoFault
             /\ existingFile' = [existingFile EXCEPT ![c] = seen]
             /\ ~IsTracked(uploadedFiles, args'[c], {})
             /\ TRUE \in getAI
             /\ StoreEntry(userId) = "wait"
             /\ ai' = TRUE
             /\ WaitForCreation(c, userId)
             /\ pc' = [pc EXCEPT ![c] = "awaitStore"]
             /\ UNCHANGED << uploadedFiles, tempPath, result, now, store >>
          \/ \* line 127, the stored promise is rejected already
             /\ NoFault
             /\ UNCHANGED << existingFile, store >>
             /\ ~IsTracked(uploadedFiles, args'[c], {})
             /\ TRUE \in getAI
             /\ StoreEntry(userId) = "settled"
             /\ ai' = TRUE
             /\ UploadFails(c, promise[storeCreationPromises[userId]].message)
             /\ UNCHANGED << promise, storeCreationPromises, createCalls,
                             awaiting, tempPath >>
          \/ \* line 127, a creation is started
             /\ NoFault
             /\ existingFile' = [existingFile EXCEPT ![c] = seen]
             /\ ~IsTracked(uploadedFiles, args'[c], {})
             /\ TRUE \in getAI
             /\ StoreEntry(userId) = "create"
             /\ ai' = TRUE
             /\ StartCreation(c, userId)
             /\ pc' = [pc EXCEPT ![c] = "awaitStore"]
             /\ UNCHANGED << uploadedFiles, tempPath, result, now, store >>
    /\ UNCHANGED << userFileStores, opAttempts, vpc, verifier, tempFiles,
                    imports, lastAnswer, patience >>
    /\ UNCHANGED << lookups, query, stream >>
    /\ UNCHANGED endpoint

\* An upload resumes from `await getOrCreateFileSearchStore(userId)`.
ResumeUpload(c) ==
    /\ pc[c] = "awaitStore"
    /\ args[c].kind = "upload"
    /\ Settled(awaiting[c])
    /\ UNCHANGED args
    /\ existingFile' = [existingFile EXCEPT ![c] = {}]
    /\ IF promise[awaiting[c]].state = "resolved"
       THEN AfterStore(c, existingFile[c], promise[awaiting[c]].storeName)
       ELSE /\ UploadFails(c, promise[awaiting[c]].message)
            /\ UNCHANGED << tempPath, store >>
    /\ awaiting' = [awaiting EXCEPT ![c] = 0]
    /\ UNCHANGED << ai, userFileStores, storeCreationPromises, promise,
                    opAttempts, vpc, verifier, tempFiles, createCalls,
                    imports, lastAnswer, peers, callsLeft, patience, faults >>
    /\ UNCHANGED << lookups, query, stream >>
    /\ UNCHANGED endpoint

\* What uploadToFileSearchStore and operations.get may answer: the
\* operation's done flag, its error (none: NoMessage) and the document
\* name of its response ("": none).
OperationAnswers ==
    [done : BOOLEAN, error : {NoMessage} \cup BackendErrors,
     documentName : DocumentNames]

\* Lines 188 and 204: `Upload operation failed: ${JSON.stringify(error)}`
OperationFailed(error) == <<"Upload operation failed: ">> \o error

\* Line 198
OperationTimedOut == <<"Upload operation timed out after 5 minutes">>

\* fs.writeFile answers: lines 161-171.
WriteFileReturns(c) ==
    /\ Quiescent
    /\ pc[c] = "writing"
    /\ UNCHANGED args
    /\ \/ /\ tempFiles' = tempFiles \cup {tempPath[c]}
          /\ imports' = imports \cup {c}
          /\ pc' = [pc EXCEPT ![c] = "submitting"]
          /\ UNCHANGED << uploadedFiles, result, now >>
          /\ NoFault
       \/ /\ \E e \in FsErrors : UploadFails(c, e)
          /\ UNCHANGED << tempFiles, imports >>
          /\ Fault
    /\ UNCHANGED << ai, userFileStores, storeCreationPromises, promise,
                    awaiting, existingFile, store, lastAnswer, opAttempts, tempPath, vpc,
                    verifier, createCalls, peers, callsLeft, patience >>
    /\ UNCHANGED << lookups, query, stream >>
    /\ UNCHANGED endpoint

\* Lines 207-247: the import is complete; the verifier is started (it runs
\* to its first timer) and the call returns.
UploadSucceeds(c, files, documentName) ==
    /\ uploadedFiles' = files
    /\ vpc' = [vpc EXCEPT ![c] = "polling"]
    /\ verifier' = [verifier EXCEPT ![c] =
          [fileDocumentName |-> documentName, checkAttempts |-> 0,
           fileReady |-> FALSE]]
    /\ result' = [result EXCEPT ![c] =
          Returned(store[c], FALSE)]
    /\ pc' = [pc EXCEPT ![c] = "done"]
    /\ UNCHANGED now

\* Lines 181-205 with a loop that tests `!operation.done` alone.
AfterOperationWithoutCeiling(c, files, op, attempts) ==
    IF ~op.done
    THEN /\ uploadedFiles' = files
         /\ pc' = [pc EXCEPT ![c] = "polling"]
         /\ UNCHANGED << result, vpc, verifier, now >>
    ELSE IF op.error # NoMessage
    THEN UploadFailsFrom(c, files, OperationFailed(op.error))
         /\ UNCHANGED << vpc, verifier >>
    ELSE UploadSucceeds(c, files, op.documentName)

\* Lines 181-205 from the loop's test on, with the operation last received
\* and `attempts` polls made.
AfterOperation(c, files, op, attempts) ==
    IF ~op.done /\ attempts < maxAttempts
    THEN /\ uploadedFiles' = files
         /\ pc' = [pc EXCEPT ![c] = "polling"]
         /\ UNCHANGED << result, vpc, verifier, now >>
    ELSE IF ~op.done
    THEN UploadFailsFrom(c, files, OperationTimedOut)
         /\ UNCHANGED << vpc, verifier >>
    ELSE IF op.error # NoMessage
    THEN UploadFailsFrom(c, files, OperationFailed(op.error))
         /\ UNCHANGED << vpc, verifier >>
    ELSE UploadSucceeds(c, files, op.documentName)

\* uploadToFileSearchStore answers: lines 165-205.
SubmitReturns(c) ==
    /\ Quiescent
    /\ pc[c] = "submitting"
    /\ UNCHANGED args
    /\ \/ \E e \in BackendErrors :
             /\ UploadFails(c, e)
             /\ lastAnswer' = [lastAnswer EXCEPT ![c] = Threw(e)]
             /\ UNCHANGED << vpc, verifier >>
             /\ Fault
       \/ \E op \in OperationAnswers :
             /\ IF op.error # NoMessage THEN Fault ELSE NoFault
             /\ lastAnswer' = [lastAnswer EXCEPT ![c] = Answered(op)]
             /\ AfterOperation(c,
                 updateFileProcessingStatus(uploadedFiles, args[c].userId,
                     args[c].fileName, args[c].size, "processing", NoMessage),
                 op, 0)
    /\ UNCHANGED << ai, userFileStores, storeCreationPromises, promise,
                    awaiting, existingFile, store, opAttempts, tempPath,
                    tempFiles, createCalls, imports, peers, callsLeft,
                    patience >>
    /\ UNCHANGED << lookups, query, stream >>
    /\ UNCHANGED endpoint

\* The 5 s timer fires and operations.get answers: lines 182-205.
PollOperation(c) ==
    /\ Quiescent
    /\ pc[c] = "polling"
    /\ UNCHANGED args
    /\ \/ /\ \E e \in BackendErrors :
                /\ UploadFails(c, e)
                /\ lastAnswer' = [lastAnswer EXCEPT ![c] = Threw(e)]
          /\ UNCHANGED << vpc, verifier >>
          /\ Fault /\ Concludes
       \/ \E op \in OperationAnswers :
             /\ lastAnswer' = [lastAnswer EXCEPT ![c] = Answered(op)]
             /\ IF op.error # NoMessage
                THEN /\ UploadFails(c, OperationFailed(op.error))
                     /\ UNCHANGED << vpc, verifier >>
                     /\ Fault /\ Concludes
                ELSE /\ IF op.done THEN Concludes ELSE GoesOn
                     /\ NoFault
                     /\ AfterOperation(c, uploadedFiles, op,
                                       opAttempts[c] + 1)
    \* `attempts` is a local of the call: it is gone when the call is over
    /\ opAttempts' = [opAttempts EXCEPT ![c] =
                         IF pc'[c] = "polling" THEN @ + 1 ELSE 0]
    /\ UNCHANGED << ai, userFileStores, storeCreationPromises, promise,
                    awaiting, existingFile, store, tempPath, tempFiles,
                    createCalls, imports, peers, callsLeft >>
    /\ UNCHANGED << lookups, query, stream >>
    /\ UNCHANGED endpoint

(* ---------------------- verifyFileStateInBackground ------------------- *)

\* What client.files.get may do: report a state or throw.
LookupAnswers ==
    [state : FileStates, error : {[status |-> 0, message |-> NoMessage]}]
    \cup [state : {"none"}, error : LookupErrors]

\* Line 518
ProcessingFailed ==
    <<"File ", "processing failed", " with state: ", "FAILED">>

\* Lines 512-528: the error a poll's answer raises into the inner catch
\* (status 0, no message: none).
CheckError(answer) ==
    IF answer.state = "FAILED"
    THEN [status |-> 0, message |-> ProcessingFailed]
    ELSE answer.error

\* Lines 568-571 with the tests of the status alone.
IsFatalByStatus(checkError) ==
    \/ checkError.status = 401
    \/ checkError.status = 403

\* Lines 568-571
IsFatal(checkError) ==
    \/ Includes(checkError.message, "processing failed")
    \/ Includes(checkError.message, "FAILED")
    \/ checkError.status = 401
    \/ checkError.status = 403

\* Lines 581-596 without the else branch of lines 593-596: a loop left
\* without fileReady writes nothing.
AfterLoopWithoutTimeout(files, a, documentName, fileReady) ==
    IF fileReady
    THEN updateFileProcessingStatus(files, a.userId, a.fileName, a.size,
                                    "ready", NoMessage)
    ELSE files

\* Lines 581-596: the table when the loop is left.
AfterLoop(files, a, documentName, fileReady) ==
    IF fileReady
    THEN LET marked == updateFileProcessingStatus(files, a.userId,
                           a.fileName, a.size, "ready", NoMessage)
             key == fileKey(a.userId, a.fileName, a.size)
         IN IF key \in DOMAIN marked /\ documentName # ""
            THEN [marked EXCEPT ![key].fileDocumentName = documentName]
            ELSE marked
    ELSE updateFileProcessingStatus(files, a.userId, a.fileName, a.size,
                                    "error", <<"Processing timed out">>)

\* Line 540 with a strict comparison.
GraceOverLate(checkAttempts) == checkAttempts > graceAttempts

\* Line 540: if (checkAttempts >= 6)
GraceOver(checkAttempts) == checkAttempts >= graceAttempts

\* A turn of the loop of lines 497-579 of a verifier that has a document
\* name, and what follows the loop: client.files.get gives its answer, and
\* the record is written when the loop is left.
Lookup(c, answer) ==
    LET a == args[c]
        v == verifier[c]
        n == v.checkAttempts + 1
        e == CheckError(answer)
        ready == answer.state = "ACTIVE"
        goesOn == ~ready /\ ~IsFatal(e)
    IN
    /\ IF goesOn THEN GoesOn ELSE Concludes
    /\ IF e.message # NoMessage THEN Fault ELSE NoFault
    /\ lookups' = lookups \cup {c}
    /\ verifier' = [verifier EXCEPT ![c].checkAttempts = n,
                                    ![c].fileReady = ready]
    /\ IF IsFatal(e)
       THEN /\ uploadedFiles' = updateFileProcessingStatus(
                   uploadedFiles, a.userId, a.fileName, a.size,
                   "error", e.message)
            /\ vpc' = [vpc EXCEPT ![c] = "unlinkFatal"]
       ELSE IF ready \/ n >= maxCheckAttempts
       THEN /\ uploadedFiles' = AfterLoop(uploadedFiles, a,
                   v.fileDocumentName, ready)
            /\ vpc' = [vpc EXCEPT ![c] = "unlink"]
       ELSE UNCHANGED << uploadedFiles, vpc >>

\* One turn of the loop of lines 497-579 and what follows it: the 2 s
\* timer fires, the document is looked up (when its name is known), and the
\* record is written when the loop is left.
VerifyPoll(c) ==
    /\ Quiescent
    /\ vpc[c] = "polling"
    /\ LET a == args[c]
           v == verifier[c]
           n == v.checkAttempts + 1
       IN
       IF v.fileDocumentName # ""
       THEN \E answer \in LookupAnswers : Lookup(c, answer)
       ELSE LET ready == GraceOver(n) IN
            /\ verifier' = [verifier EXCEPT ![c].checkAttempts = n,
                                            ![c].fileReady = ready]
            /\ IF ready \/ n >= maxCheckAttempts
               THEN /\ uploadedFiles' = AfterLoop(uploadedFiles, a,
                           v.fileDocumentName, ready)
                    /\ vpc' = [vpc EXCEPT ![c] = "unlink"]
               ELSE UNCHANGED << uploadedFiles, vpc >>
            /\ IF ready THEN Concludes ELSE GoesOn
            /\ NoFault
            /\ UNCHANGED lookups
    /\ UNCHANGED << ai, userFileStores, storeCreationPromises, promise,
                    awaiting, pc, args, existingFile, store, lastAnswer, opAttempts,
                    tempPath, result, tempFiles, now, createCalls, imports,
                    peers, callsLeft >>
    /\ UNCHANGED << query, stream >>
    /\ UNCHANGED endpoint

\* fs.unlink(tempPath) answers: line 573 on the fatal path, where the
\* function returns through the finally block, and line 602.
UnlinkReturns(c) ==
    /\ Quiescent
    /\ vpc[c] \in {"unlinkFatal", "unlink"}
    /\ tempFiles' = tempFiles \ {tempPath[c]}
    /\ vpc' = [vpc EXCEPT ![c] = IF vpc[c] = "unlinkFatal" THEN "unlink"
                                 ELSE "done"]
    \* the verifier's locals are gone when it is over
    /\ verifier' = [verifier EXCEPT ![c] =
                       IF vpc[c] = "unlinkFatal" THEN @ ELSE NoVerifier]
    /\ UNCHANGED << ai, userFileStores, storeCreationPromises, uploadedFiles,
                    promise, awaiting, pc, args, existingFile, store, lastAnswer,
                    opAttempts, tempPath, result, now, createCalls, imports,
                    peers, callsLeft, patience, faults >>
    /\ UNCHANGED << lookups, query, stream >>
    /\ UNCHANGED endpoint

(* ------------------------ getFileProcessingStatus --------------------- *)

\* Keys of the records that .filter(f => f.userId === userId) keeps.
UserKeys(files, userId) == {k \in DOMAIN files : files[k].userId = userId}

\* .filter(f => statuses has f.status).length
CountStatus(files, keys, statuses) ==
    Cardinality({k \in keys : files[k].processingStatus \in statuses})

\* Lines 614-648 with allReady = userFiles.length > 0 && processingCount
\* === 0, the test of errorCount left out.
getFileProcessingStatusWithoutErrors(files, userId) ==
    LET keys == IF userId = "" THEN {} ELSE UserKeys(files, userId)
        processingCount == CountStatus(files, keys,
                                       {"processing", "uploading"})
    IN [files |-> keys,
        allReady |-> Cardinality(keys) > 0 /\ processingCount = 0,
        processingCount |-> processingCount,
        readyCount |-> CountStatus(files, keys, {"ready"}),
        errorCount |-> CountStatus(files, keys, {"error"})]

\* Lines 614-648; `files` is given by the keys of the user's records.
getFileProcessingStatus(files, userId) ==
    IF userId = ""
    THEN [files |-> {}, allReady |-> FALSE, processingCount |-> 0,
          readyCount |-> 0, errorCount |-> 0]
    ELSE LET userFiles == UserKeys(files, userId)
             processingCount == CountStatus(files, userFiles,
                                            {"processing", "uploading"})
             readyCount == CountStatus(files, userFiles, {"ready"})
             errorCount == CountStatus(files, userFiles, {"error"})
         IN [files |-> userFiles,
             allReady |-> /\ Cardinality(userFiles) > 0
                          /\ processingCount = 0
                          /\ errorCount = 0,
             processingCount |-> processingCount,
             readyCount |-> readyCount,
             errorCount |-> errorCount]

(* ------------------------------ queryRAG ------------------------------ *)

\* Questions a user may ask.
Questions == {"q1", "q2"}

\* The user identifier a caller may pass: a user's, or none.
UserIds == Users \cup {""}

\* const modelsToTry
modelsToTry == <<"gemini-2.5-flash", "gemini-2.5-pro">>

\* Errors of generateContentStream: a candidate the backend does not have
\* (by status, by code), an invalid argument, a rate limit (with two
\* message texts), a file of another store, a server error, and an error
\* without message.
GenerateErrors ==
    { [status |-> 404, code |-> 0,
       message |-> <<"model is ", "not found">>],
      [status |-> 0, code |-> 404, message |-> <<"unsupported model">>],
      [status |-> 400, code |-> 0, message |-> <<"invalid argument">>],
      [status |-> 429, code |-> 0, message |-> <<"quota exceeded">>],
      [status |-> 429, code |-> 0,
       message |-> <<"quota bucket is ", "empty">>],
      [status |-> 403, code |-> 0,
       message |-> <<"file is in a ", "different store">>],
      [status |-> 500, code |-> 0, message |-> <<"internal error">>],
      [status |-> 503, code |-> 0, message |-> NoMessage] }

\* An Error thrown with a message only.
Failure(message) == [status |-> 0, code |-> 0, message |-> message]

\* String.toLowerCase on a fragment: the fragments with capitals.
LowerCase(fragment) ==
    CASE fragment = "Missing required environment variables: "
            -> "missing required environment variables: "
      [] fragment = "GOOGLE_API_KEY" -> "google_api_key"
      [] OTHER -> fragment

toLowerCase(message) == [i \in DOMAIN message |-> LowerCase(message[i])]

\* JSON.stringify(error) of an error without message
stringify(error) == << "{\"status\":" \o ToString(error.status) \o "}" >>

\* error?.message || JSON.stringify(error)
ErrorMessage(error) ==
    IF error.message # NoMessage THEN error.message ELSE stringify(error)

\* The texts queryRAG answers with, as message.split(/(?=[ \n])/) cuts
\* them; each text is given by its heading.
AuthenticationError == <<"**Authentication", " Error**">>

NoDocumentsUploaded == <<"**No", " Documents", " Uploaded**">>

RateLimitExceeded == <<"**Rate", " Limit", " Exceeded**">>

ModelConfigurationIssue == <<"**Model", " Configuration", " Issue**">>

ConfigurationError == <<"**Configuration", " Error**">>

FileAccessIssue == <<"**File", " Access", " Issue**">>

\* The generic text without the line of the error details.
ServiceTemporarilyUnavailableWithoutDetails(errorMessage) ==
    <<"**Service", " Temporarily", " Unavailable**">>

ServiceTemporarilyUnavailable(errorMessage) ==
    <<"**Service", " Temporarily", " Unavailable**", " **Error",
      " details:** ">> \o errorMessage

\* The fragments the inner catch looks for in the lower-cased message.
NoFilesFragments ==
    {"empty", "not found", "no files", "not accessible", "no documents",
     "file search store is not properly initialized"}

\* The fragments the outer catch looks for in the message.
FileAccessFragments ==
    {"not accessible", "not found", "empty", "different store"}

\* The catch blocks of queryRAG: the text answered for an error.
Diagnostic(error) ==
    LET errorMessage == ErrorMessage(error)
        errorString == toLowerCase(errorMessage)
    IN IF \E f \in NoFilesFragments : Includes(errorString, f)
       THEN NoDocumentsUploaded
       ELSE IF error.status = 429 THEN RateLimitExceeded
       ELSE IF error.status = 404 \/ error.code = 404
       THEN ModelConfigurationIssue
       ELSE IF error.status = 400 \/ error.code = 400
       THEN ConfigurationError
       ELSE IF \E f \in FileAccessFragments : Includes(errorMessage, f)
       THEN FileAccessIssue
       ELSE ServiceTemporarilyUnavailable(errorMessage)

\* createErrorStream(message) as it is returned: start() has written the
\* first piece and waits for its timer.
createErrorStream(message) ==
    [NoStream EXCEPT !.state = "readable", !.source = "message",
                     !.pieces = Tail(message), !.written = Head(message),
                     !.running = TRUE]

\* iteratorToStream(response) as it is returned: start() waits for the
\* first chunk of the candidate's response.
iteratorToStream(model) ==
    [NoStream EXCEPT !.state = "readable", !.source = "iterator",
                     !.model = model, !.running = TRUE]

\* What queryRAG resolves to: a stream.
Streamed ==
    [outcome |-> "stream", isDuplicate |-> FALSE, storeName |-> NoStoreName,
     message |-> NoMessage]

\* queryRAG returns a stream.
QueryReturns(c, locals, s) ==
    /\ query' = [query EXCEPT ![c] = locals]
    /\ stream' = [stream EXCEPT ![c] = s]
    /\ result' = [result EXCEPT ![c] = Streamed]
    /\ pc' = [pc EXCEPT ![c] = "done"]

\* The catch blocks of queryRAG with the generic fallback left out: an
\* error that no test recognises is thrown on.
QueryFailsWithoutFallback(c, locals, error) ==
    IF Diagnostic(error) = ServiceTemporarilyUnavailable(ErrorMessage(error))
    THEN /\ query' = [query EXCEPT ![c] = locals]
         /\ result' = [result EXCEPT ![c] = Thrown(error.message)]
         /\ pc' = [pc EXCEPT ![c] = "done"]
         /\ UNCHANGED stream
    ELSE QueryReturns(c, locals, createErrorStream(Diagnostic(error)))

\* The catch blocks of queryRAG: the error becomes a stream of text.
QueryFails(c, locals, error) ==
    QueryReturns(c, locals, createErrorStream(Diagnostic(error)))

\* The loop of queryWithFileSearchStream goes round without advancing: the
\* candidate that failed is called again.
TryAgain(tried) ==
    Append(tried, modelsToTry[IF tried = << >> THEN 1 ELSE Len(tried)])

\* The loop of queryWithFileSearchStream goes round: the candidates tried
\* when generateContentStream is called with the next one.
TryNext(tried) == Append(tried, modelsToTry[Len(tried) + 1])

\* status or code 404, status or code 400: the loop continues
IsUnavailable(error) ==
    \/ error.status = 404 \/ error.code = 404
    \/ error.status = 400 \/ error.code = 400

\* queryRAG has its store: queryWithFileSearchStream is called, gets the
\* client and the cached store and calls generateContentStream with the
\* first candidate.
QueryStore(c, question) ==
    \E clientOk \in getAI :
        IF clientOk
        THEN /\ ai' = TRUE
             /\ query' = [query EXCEPT ![c] =
                   [question |-> question, tried |-> TryNext(<< >>),
                    lastError |-> NoError]]
             /\ pc' = [pc EXCEPT ![c] = "generating"]
             /\ UNCHANGED << result, stream >>
             /\ NoFault
        ELSE /\ UNCHANGED ai
             /\ QueryFails(c, [NoQuery EXCEPT !.question = question],
                           Failure(EnvError))
             /\ Fault

\* rag.ts 146-152: a query without user identifier is answered with the
\* no-documents text.
QueryWithoutUserAsNoDocuments(c, question) ==
    QueryReturns(c, [NoQuery EXCEPT !.question = question],
                 createErrorStream(NoDocumentsUploaded))

\* rag.ts 146-152: a query without user identifier.
QueryWithoutUser(c, question) ==
    QueryReturns(c, [NoQuery EXCEPT !.question = question],
                 createErrorStream(AuthenticationError))

\* queryRAG(query, userId) is called: up to the first call it waits for.
StartQuery(c, userId, question) ==
    /\ MayStart(c)
    /\ args' = [args EXCEPT ![c] = [kind |-> "query", userId |-> userId,
                                    fileName |-> "", size |-> 0]]
    /\ peers' = [peers EXCEPT ![c] = InProgress]
    /\ LET locals == [NoQuery EXCEPT !.question = question] IN
       \/ /\ userId = ""
          /\ QueryWithoutUser(c, question)
          /\ UNCHANGED << ai, promise, storeCreationPromises, createCalls,
                          awaiting, faults >>
       \/ /\ userId # ""
          /\ StoreEntry(userId) = "cached"
          /\ QueryStore(c, question)
          /\ UNCHANGED << promise, storeCreationPromises, createCalls,
                          awaiting >>
       \/ /\ userId # ""
          /\ StoreEntry(userId) = "wait"
          /\ WaitForCreation(c, userId)
          /\ query' = [query EXCEPT ![c] = locals]
          /\ pc' = [pc EXCEPT ![c] = "awaitStore"]
          /\ UNCHANGED << ai, result, stream, faults >>
       \/ /\ userId # ""
          /\ StoreEntry(userId) = "settled"
          /\ QueryFails(c, locals,
                Failure(promise[storeCreationPromises[userId]].message))
          /\ UNCHANGED << ai, promise, storeCreationPromises, createCalls,
                          awaiting, faults >>
       \/ /\ userId # ""
          /\ StoreEntry(userId) = "create"
          /\ \E clientOk \in getAI :
                IF clientOk
                THEN /\ ai' = TRUE
                     /\ StartCreation(c, userId)
                     /\ query' = [query EXCEPT ![c] = locals]
                     /\ pc' = [pc EXCEPT ![c] = "awaitStore"]
                     /\ UNCHANGED << result, stream >>
                     /\ NoFault
                ELSE /\ CreationFailsAtClient(c, userId)
                     /\ QueryFails(c, locals, Failure(EnvError))
                     /\ UNCHANGED ai
                     /\ Fault
    /\ UNCHANGED << userFileStores, uploadedFiles, existingFile, store,
                    opAttempts, tempPath, vpc, verifier, tempFiles, now,
                    imports, lastAnswer, lookups, patience >>
    /\ UNCHANGED endpoint

\* queryRAG resumes from `await getOrCreateFileSearchStore(userId)`.
ResumeQuery(c) ==
    /\ pc[c] = "awaitStore"
    /\ args[c].kind = "query"
    /\ Settled(awaiting[c])
    /\ awaiting' = [awaiting EXCEPT ![c] = 0]
    /\ IF promise[awaiting[c]].state = "resolved"
       THEN QueryStore(c, query[c].question)
       ELSE /\ QueryFails(c, query[c],
                          Failure(promise[awaiting[c]].message))
            /\ UNCHANGED << ai, faults >>
    /\ UNCHANGED << userFileStores, storeCreationPromises, uploadedFiles,
                    promise, args, existingFile, store, opAttempts,
                    tempPath, vpc, verifier, tempFiles, now, createCalls,
                    imports, lastAnswer, lookups, peers, callsLeft,
                    patience >>
    /\ UNCHANGED endpoint

\* generateContentStream answers: gemini-file-search.ts 381-426 and what
\* queryRAG does with the outcome.
GenerateReturns(c) ==
    /\ Quiescent
    /\ pc[c] = "generating"
    /\ LET tried == query[c].tried IN
       \/ QueryReturns(c, query[c], iteratorToStream(tried[Len(tried)]))
       \/ \E error \in GenerateErrors :
             LET locals == [query[c] EXCEPT !.lastError = error] IN
             IF IsUnavailable(error) /\ Len(tried) < Len(modelsToTry)
             THEN /\ query' = [query EXCEPT ![c] =
                                  [locals EXCEPT !.tried = TryNext(tried)]]
                  /\ UNCHANGED << pc, result, stream >>
             ELSE QueryFails(c, locals, error)
    /\ UNCHANGED << ai, userFileStores, storeCreationPromises, uploadedFiles,
                    promise, awaiting, args, existingFile, store,
                    opAttempts, tempPath, vpc, verifier, tempFiles, now,
                    createCalls, imports, lastAnswer, lookups, peers,
                    callsLeft, patience, faults >>
    /\ UNCHANGED endpoint

\* uploadFileToGemini without userId: lines 103-106.
RejectUpload(c, fileName, size) ==
    /\ MayStart(c)
    /\ args' = [args EXCEPT ![c] = [kind |-> "upload", userId |-> "",
                                    fileName |-> fileName, size |-> size]]
    /\ peers' = [peers EXCEPT ![c] = InProgress]
    /\ result' = [result EXCEPT ![c] =
                     Thrown(<<"User ID is required for file upload">>)]
    /\ pc' = [pc EXCEPT ![c] = "done"]
    /\ UNCHANGED << ai, userFileStores, storeCreationPromises, uploadedFiles,
                    promise, awaiting, existingFile, store, opAttempts,
                    tempPath, vpc, verifier, tempFiles, now, createCalls,
                    imports, lastAnswer, lookups, query, stream, patience,
                    faults >>
    /\ UNCHANGED endpoint

(* ------------------------ the streams of queryRAG --------------------- *)

\* A chunk of a candidate's response, by the properties iteratorToStream
\* looks at: whether it is a string (and which), its text property (none, a
\* function, a function that throws, a string) and what that gives, the
\* parts of its first candidate (hasParts: whether there are any parts at
\* all), response.text, the parts of response's first candidate,
\* executableCode and content.
NoChunk ==
    [isString |-> FALSE, string |-> "", textKind |-> "none", text |-> "",
     hasParts |-> FALSE, parts |-> << >>, responseText |-> "",
     hasResponseParts |-> FALSE, responseParts |-> << >>,
     executableCode |-> FALSE, content |-> ""]

\* A part with text, and a part with executable code.
TextPart(text) == [text |-> text, executableCode |-> FALSE]

CodePart == [text |-> "", executableCode |-> TRUE]

\* The chunks a response may yield.
Chunks ==
    { [NoChunk EXCEPT !.isString = TRUE, !.string = "a"],
      [NoChunk EXCEPT !.isString = TRUE, !.string = ""],
      [NoChunk EXCEPT !.textKind = "function", !.text = "b"],
      [NoChunk EXCEPT !.textKind = "throws", !.hasParts = TRUE,
                      !.parts = <<CodePart>>],
      [NoChunk EXCEPT !.textKind = "string", !.text = "a",
                      !.hasParts = TRUE, !.parts = <<TextPart("a")>>],
      [NoChunk EXCEPT !.textKind = "string", !.text = " ",
                      !.hasParts = TRUE, !.parts = <<TextPart(" ")>>],
      [NoChunk EXCEPT !.hasParts = TRUE,
                      !.parts = <<CodePart, TextPart("b")>>],
      [NoChunk EXCEPT !.hasParts = TRUE, !.parts = <<CodePart>>],
      [NoChunk EXCEPT !.responseText = "b"],
      [NoChunk EXCEPT !.hasResponseParts = TRUE,
                      !.responseParts = <<TextPart("a"), CodePart>>],
      [NoChunk EXCEPT !.executableCode = TRUE],
      [NoChunk EXCEPT !.content = "a"],
      NoChunk }

\* parts.filter(part => part.text && !part.executableCode)
\*      .map(part => part.text).join('')
RECURSIVE JoinText(_)
JoinText(parts) ==
    IF parts = << >> THEN ""
    ELSE (IF Head(parts).text # "" /\ ~Head(parts).executableCode
          THEN Head(parts).text ELSE "") \o JoinText(Tail(parts))

\* rag.ts 56-103: the text taken from a chunk.
chunkText(chunk) ==
    IF chunk.isString THEN chunk.string
    ELSE IF chunk.textKind = "function" THEN chunk.text
    ELSE IF chunk.textKind = "throws" THEN ""
    ELSE IF chunk.textKind = "string" /\ chunk.text # "" THEN chunk.text
    ELSE IF chunk.hasParts THEN JoinText(chunk.parts)
    ELSE IF chunk.responseText # "" THEN chunk.responseText
    ELSE IF chunk.hasResponseParts THEN JoinText(chunk.responseParts)
    ELSE IF chunk.executableCode THEN ""
    ELSE IF chunk.text # "" THEN chunk.text
    ELSE chunk.content

\* String.trim on the texts of the chunks.
trim(text) == IF text = " " THEN "" ELSE text

\* rag.ts 55-118: the stream after its source has taken a chunk.  A chunk
\* whose text is empty or blank is passed over; writing to a stream that is
\* not readable throws ERR_INVALID_STATE, on which the source returns.
Consume(s, chunk) ==
    LET text == chunkText(chunk)
        taken == [s EXCEPT !.consumed = @ + 1,
                           !.late = IF s.state = "cancelled" THEN @ + 1
                                    ELSE @,
                           !.expected = IF s.state = "readable"
                                        THEN @ \o text ELSE @]
    IN IF text # "" /\ trim(text) # ""
       THEN IF s.state = "readable"
            THEN [taken EXCEPT !.written = @ \o text]
            ELSE [taken EXCEPT !.running = FALSE]
       ELSE taken

\* rag.ts 135-140: controller.close(), which throws on a stream that is
\* not readable.
Finish(s) ==
    IF s.state = "readable"
    THEN [s EXCEPT !.state = "closed", !.running = FALSE]
    ELSE [s EXCEPT !.running = FALSE]

\* rag.ts 123-133: controller.error(error), which does nothing to a stream
\* that is not readable.
Raise(s) ==
    IF s.state = "readable"
    THEN [s EXCEPT !.state = "errored", !.running = FALSE]
    ELSE [s EXCEPT !.running = FALSE]

\* The response answers the source's request for its next chunk: with a
\* chunk, with its end, or by raising.
NextChunk(c) ==
    /\ Quiescent
    /\ stream[c].source = "iterator"
    /\ stream[c].running
    /\ \/ /\ stream[c].consumed < MaxChunks
          /\ \E chunk \in Chunks :
                stream' = [stream EXCEPT ![c] = Consume(stream[c], chunk)]
          /\ NoFault
       \/ /\ stream' = [stream EXCEPT ![c] = Finish(stream[c])]
          /\ NoFault
       \/ /\ stream' = [stream EXCEPT ![c] = Raise(stream[c])]
          /\ Fault
    /\ UNCHANGED << ai, userFileStores, storeCreationPromises, uploadedFiles,
                    promise, awaiting, pc, args, existingFile, store,
                    opAttempts, tempPath, result, vpc, verifier, tempFiles,
                    now, createCalls, imports, lastAnswer, lookups, query,
                    peers, callsLeft, patience >>
    /\ UNCHANGED endpoint

\* The 20 ms timer of createErrorStream fires: rag.ts 19-23.  The next
\* piece is written, or the stream is closed after the last; either throws
\* on a stream that is not readable, which ends start().
TimerFires(c) ==
    /\ Quiescent
    /\ stream[c].source = "message"
    /\ stream[c].running
    /\ stream' = [stream EXCEPT ![c] =
          IF stream[c].state # "readable" THEN [@ EXCEPT !.running = FALSE]
          ELSE IF stream[c].pieces = << >> THEN Finish(@)
          ELSE [@ EXCEPT !.written = @ \o Head(stream[c].pieces),
                         !.pieces = Tail(@)]]
    /\ UNCHANGED << ai, userFileStores, storeCreationPromises, uploadedFiles,
                    promise, awaiting, pc, args, existingFile, store,
                    opAttempts, tempPath, result, vpc, verifier, tempFiles,
                    now, createCalls, imports, lastAnswer, lookups, query,
                    peers, callsLeft, patience, faults >>
    /\ UNCHANGED endpoint

\* The reader of the stream cancels it: the transport is gone.
Cancel(c) ==
    /\ Quiescent
    /\ stream[c].state = "readable"
    /\ stream' = [stream EXCEPT ![c].state = "cancelled"]
    /\ UNCHANGED << ai, userFileStores, storeCreationPromises, uploadedFiles,
                    promise, awaiting, pc, args, existingFile, store,
                    opAttempts, tempPath, result, vpc, verifier, tempFiles,
                    now, createCalls, imports, lastAnswer, lookups, query,
                    peers, callsLeft, patience, faults >>
    /\ UNCHANGED endpoint

(* --------------------------- the upload endpoint ---------------------- *)

\* Date.now() in milliseconds: one step of the clock is one window.
DateNow(t) == t * RATE_LIMIT_WINDOW

\* uploadTimestamps.get(userId) || []
TimestampsOf(timestamps, userId) ==
    IF userId \in DOMAIN timestamps THEN timestamps[userId] ELSE << >>

\* timestamps.filter(timestamp => now - timestamp < age)
Recent(timestamps, t, age) ==
    SelectSeq(timestamps, LAMBDA timestamp : t - timestamp < age)

\* checkRateLimit(userId).allowed, lines 13-29
checkRateLimit(timestamps, userId, t) ==
    Len(Recent(TimestampsOf(timestamps, userId), t, RATE_LIMIT_WINDOW))
        < MAX_UPLOADS_PER_WINDOW

\* recordUpload(userId), lines 31-44
recordUpload(timestamps, userId, t) ==
    Put(timestamps, userId,
        Recent(Append(TimestampsOf(timestamps, userId), t), t,
               RATE_LIMIT_WINDOW * 2))

\* NextResponse.json({ error }, { status })
Refused(status) ==
    [NoPost EXCEPT !.state = "answered", !.status = status]

\* The answer of lines 156-167.
Uploaded(isDuplicate) ==
    [NoPost EXCEPT !.state = "answered", !.status = 200,
                   !.isDuplicate = isDuplicate,
                   !.processingStatus =
                       IF isDuplicate THEN "ready" ELSE "processing"]

\* The users auth() gives to the endpoint and the files of the forms. A
\* request without user or without a valid file is refused with status 401
\* or 400 and leaves the state as it is: the requests here have both.
PostUsers == {"u"}

PostFiles == {"n.txt"}

\* POST, lines 46-86: a request arrives, auth() gives its user, and
\* checkRateLimit lets it pass or not.
Post(c, userId) ==
    /\ post[c].state = "none"
    /\ \A d \in Calls : d < c => post[d].state # "none"
    /\ Quiescent
    /\ now' \in Clock
    /\ IF ~checkRateLimit(uploadTimestamps, userId, DateNow(now'))
       THEN /\ post' = [post EXCEPT ![c] =
                           [Refused(429) EXCEPT !.userId = userId,
                                                !.at = DateNow(now')]]
            /\ pc' = [pc EXCEPT ![c] = "done"]
       ELSE /\ post' = [post EXCEPT ![c] =
                           [NoPost EXCEPT !.state = "checked",
                                          !.userId = userId,
                                          !.at = DateNow(now')]]
            /\ UNCHANGED pc
    /\ UNCHANGED << ai, userFileStores, storeCreationPromises, uploadedFiles,
                    promise, awaiting, args, existingFile, store, opAttempts,
                    tempPath, result, vpc, verifier, tempFiles, createCalls,
                    imports, lastAnswer, lookups, query, stream, peers,
                    callsLeft, patience, uploadTimestamps, faults >>

\* POST, lines 86-143: the form is read and uploadFileToGemini is called.
PostUploads(c, fileName, size) ==
    /\ post[c].state = "checked"
    /\ StartUpload(c, post[c].userId, fileName, size)

\* POST, lines 143-176: uploadFileToGemini has returned or thrown.
PostReturns(c) ==
    /\ post[c].state = "checked"
    /\ pc[c] = "done"
    /\ IF result[c].outcome = "success"
       THEN /\ now' \in Clock
            /\ uploadTimestamps' =
                  recordUpload(uploadTimestamps, post[c].userId, DateNow(now'))
            /\ post' = [post EXCEPT ![c] =
                           [Uploaded(result[c].isDuplicate)
                               EXCEPT !.userId = post[c].userId,
                                      !.at = post[c].at]]
       ELSE /\ post' = [post EXCEPT ![c] =
                           [Refused(500) EXCEPT !.userId = post[c].userId,
                                                !.at = post[c].at]]
            /\ UNCHANGED << now, uploadTimestamps >>
    /\ UNCHANGED << ai, userFileStores, storeCreationPromises, uploadedFiles,
                    promise, awaiting, pc, args, existingFile, store,
                    opAttempts, tempPath, result, vpc, verifier, tempFiles,
                    createCalls, imports, lastAnswer, lookups, query, stream,
                    peers, callsLeft, patience, faults >>

(* --------------------------- specifications --------------------------- *)

\* Every call runs its whole pipeline, under every answer of the
\* environment.
Next ==
    \/ \E c \in Calls, u \in Users : StartResolve(c, u)
    \/ \E c \in Calls, u \in Users, f \in FileNames, n \in Sizes :
          StartUpload(c, u, f, n)
    \/ \E q \in Calls : CreateReturns(q)
    \/ \E c \in Calls : ResumeResolve(c)
    \/ \E c \in Calls : ResumeUpload(c)
    \/ \E c \in Calls : WriteFileReturns(c)
    \/ \E c \in Calls : SubmitReturns(c)
    \/ \E c \in Calls : PollOperation(c)
    \/ \E c \in Calls : VerifyPoll(c)
    \/ \E c \in Calls : UnlinkReturns(c)

Spec == Init /\ [][Next]_vars

\* The store registry: every step that reads or writes the registry, for
\* more calls.  An upload is followed until fs.writeFile is called; what it
\* does afterwards touches neither the registry nor the client.
InitStore == InitWith(MaxCalls, MaxPending, MaxFaults)

NextStore ==
    \/ \E c \in Calls, u \in Users : StartResolve(c, u)
    \/ \E c \in Calls, u \in Users, f \in FileNames, n \in Sizes :
          StartUpload(c, u, f, n)
    \/ \E q \in Calls : CreateReturns(q)
    \/ \E c \in Calls : ResumeResolve(c)
    \/ \E c \in Calls : ResumeUpload(c)

SpecStore == InitStore /\ [][NextStore]_vars

\* Uploads alone, in an environment that produces no failure and concludes
\* every poll at once.
InitCollide == InitWith(MaxCalls, 0, 0)

NextCollide ==
    \/ \E c \in Calls, u \in Users, f \in FileNames, n \in Sizes :
          StartUpload(c, u, f, n)
    \/ \E q \in Calls : CreateReturns(q)
    \/ \E c \in Calls : ResumeUpload(c)
    \/ \E c \in Calls : WriteFileReturns(c)
    \/ \E c \in Calls : SubmitReturns(c)
    \/ \E c \in Calls : PollOperation(c)
    \/ \E c \in Calls : VerifyPoll(c)
    \/ \E c \in Calls : UnlinkReturns(c)

SpecCollide == InitCollide /\ [][NextCollide]_vars

\* One upload and its verifier, with both polling loops run to their
\* ceilings.
InitPoll == InitWith(1, maxAttempts + maxCheckAttempts, MaxFaults)

NextPoll ==
    \/ \E c \in Calls, u \in Users, f \in FileNames, n \in Sizes :
          StartUpload(c, u, f, n)
    \/ \E q \in Calls : CreateReturns(q)
    \/ \E c \in Calls : ResumeUpload(c)
    \/ \E c \in Calls : WriteFileReturns(c)
    \/ \E c \in Calls : SubmitReturns(c)
    \/ \E c \in Calls : PollOperation(c)
    \/ \E c \in Calls : VerifyPoll(c)
    \/ \E c \in Calls : UnlinkReturns(c)

SpecPoll == InitPoll /\ [][NextPoll]_vars

\* The event loop runs every continuation whose promise is settled; every
\* backend call, file system call and timer of a call in progress returns.
FairPoll ==
    /\ \A c \in 1..MaxCalls : WF_vars(CreateReturns(c))
    /\ \A c \in 1..MaxCalls : WF_vars(ResumeUpload(c))
    /\ \A c \in 1..MaxCalls : WF_vars(WriteFileReturns(c))
    /\ \A c \in 1..MaxCalls : WF_vars(SubmitReturns(c))
    /\ \A c \in 1..MaxCalls : WF_vars(PollOperation(c))
    /\ \A c \in 1..MaxCalls : WF_vars(VerifyPoll(c))
    /\ \A c \in 1..MaxCalls : WF_vars(UnlinkReturns(c))

FairSpecPoll == SpecPoll /\ FairPoll

\* Queries among direct calls and uploads: every step of a query up to the
\* stream it returns.  An upload is followed until fs.writeFile is called.
InitQuery == InitWith(MaxPipelines, 0, MaxFaults)

NextQuery ==
    \/ \E c \in Calls, u \in Users : StartResolve(c, u)
    \/ \E c \in Calls, u \in Users, f \in FileNames, n \in Sizes :
          StartUpload(c, u, f, n)
    \/ \E c \in Calls, f \in FileNames, n \in Sizes : RejectUpload(c, f, n)
    \/ \E c \in Calls, u \in UserIds, q \in Questions : StartQuery(c, u, q)
    \/ \E q \in Calls : CreateReturns(q)
    \/ \E c \in Calls : ResumeResolve(c)
    \/ \E c \in Calls : ResumeUpload(c)
    \/ \E c \in Calls : ResumeQuery(c)
    \/ \E c \in Calls : GenerateReturns(c)

SpecQuery == InitQuery /\ [][NextQuery]_vars

\* One query and the stream it returns, to the stream's end.
InitStream == InitWith(1, 0, MaxFaults)

NextStream ==
    \/ \E c \in Calls, u \in UserIds, q \in Questions : StartQuery(c, u, q)
    \/ \E q \in Calls : CreateReturns(q)
    \/ \E c \in Calls : ResumeQuery(c)
    \/ \E c \in Calls : GenerateReturns(c)
    \/ \E c \in Calls : NextChunk(c)
    \/ \E c \in Calls : TimerFires(c)
    \/ \E c \in Calls : Cancel(c)

SpecStream == InitStream /\ [][NextStream]_vars

\* The requests of one user to the upload endpoint, with their pipelines
\* and verifiers.
InitEndpoint == InitSlots(1..MaxRequests, MaxRequests, 0, MaxFaults)

NextEndpoint ==
    \/ \E c \in Calls, u \in PostUsers : Post(c, u)
    \/ \E c \in Calls, f \in PostFiles, n \in Sizes : PostUploads(c, f, n)
    \/ \E c \in Calls : PostReturns(c)
    \/ \E q \in Calls : CreateReturns(q)
    \/ \E c \in Calls : ResumeUpload(c)
    \/ \E c \in Calls : WriteFileReturns(c)
    \/ \E c \in Calls : SubmitReturns(c)
    \/ \E c \in Calls : PollOperation(c)
    \/ \E c \in Calls : VerifyPoll(c)
    \/ \E c \in Calls : UnlinkReturns(c)

SpecEndpoint == InitEndpoint /\ [][NextEndpoint]_vars

(* ------------------------- store registry claims ---------------------- *)

\* No creation attempt for this user has failed.
NoCreationFailed(u) ==
    \A q \in Calls : ~(promise[q].userId = u /\ promise[q].state = "rejected")

\* The calls whose getOrCreateFileSearchStore(u) has returned a handle, and
\* the name of that handle.
HasHandle(c, u) ==
    /\ args[c].userId = u
    /\ \/ args[c].kind = "resolve" /\ result[c].outcome = "success"
       \/ args[c].kind = "upload" /\ store[c] # NoStoreName

HandleName(c) ==
    IF args[c].kind = "resolve" THEN result[c].storeName ELSE store[c]

OneCreation(u) ==
    /\ createCalls[u] <= 1
    /\ \A c \in Calls : HasHandle(c, u) => createCalls[u] = 1
    /\ \A c, d \in Calls :
          HasHandle(c, u) /\ HasHandle(d, u) => HandleName(c) = HandleName(d)

\* Call c arrives in this step and finds a cached handle for its user.
FindsCachedHandle(c) ==
    /\ pc[c] = "idle"
    /\ pc'[c] # "idle"
    /\ args'[c].userId \in DOMAIN userFileStores

\* C1: in every run of calls for the same user (uploads and direct calls,
\* concurrent or one after another) in which no creation attempt of the
\* user fails, exactly one backend creation call is made for the user and
\* every call gets a handle of the same store name; a call that finds a
\* cached handle makes no backend call.
C1_RaceCollapse ==
    /\ [](\A u \in Users : NoCreationFailed(u) => OneCreation(u))
    /\ [][\A c \in Calls : FindsCachedHandle(c) =>
              createCalls' = createCalls /\ imports' = imports]_vars

\* Two direct calls and an upload of the same user, the second call made
\* while the first one's creation was in flight, have all got their handle.
C1_Witness ==
    \E c, d, e \in Calls :
        /\ args[c].kind = "resolve" /\ args[d].kind = "resolve"
        /\ args[e].kind = "upload"
        /\ c \in peers[d]
        /\ NoCreationFailed("u")
        /\ HasHandle(c, "u") /\ HasHandle(d, "u") /\ HasHandle(e, "u")

\* C4: when a creation attempt fails, at the client's initialisation or at
\* the backend's create call, no handle is cached for the user and the
\* user's in-flight marker is cleared.
C4_FailedCreationIsCleared ==
    [][\A q \in Calls :
          promise[q].state # "rejected" /\ promise'[q].state = "rejected" =>
             /\ promise'[q].userId \notin DOMAIN userFileStores'
             /\ promise'[q].userId \notin DOMAIN storeCreationPromises']_vars

\* An upload whose record exists already arrives in this step.
UploadOfTrackedFile(c) ==
    /\ pc[c] = "idle"
    /\ pc'[c] # "idle"
    /\ args'[c].kind = "upload"
    /\ LET key == fileKey(args'[c].userId, args'[c].fileName, args'[c].size)
       IN key \in DOMAIN uploadedFiles
          /\ uploadedFiles[key].userId = args'[c].userId

\* C5: an upload whose record exists already returns isDuplicate=true with
\* the store name of the record, makes no backend call and leaves the
\* record table and the store registry as they are.
C5_DuplicateShortCircuit ==
    [][\A c \in Calls : UploadOfTrackedFile(c) =>
          LET a == args'[c]
              key == fileKey(a.userId, a.fileName, a.size)
          IN /\ pc'[c] = "done"
             /\ result'[c] = Returned(uploadedFiles[key].storeName, TRUE)
             /\ createCalls' = createCalls
             /\ imports' = imports
             /\ uploadedFiles' = uploadedFiles
             /\ userFileStores' = userFileStores]_vars

\* The parts of C5 that do not name the store.
C5_DuplicateFrame ==
    [][\A c \in Calls : UploadOfTrackedFile(c) =>
          /\ pc'[c] = "done"
          /\ result'[c].outcome = "success"
          /\ result'[c].isDuplicate
          /\ createCalls' = createCalls
          /\ imports' = imports
          /\ uploadedFiles' = uploadedFiles
          /\ userFileStores' = userFileStores]_vars

(* --------------------------- upload claims ---------------------------- *)

\* Two uploads with identical (user, file name, byte length), the second
\* one called while the first one was running.
ConcurrentTwins(c, d) ==
    /\ c # d
    /\ args[c].kind = "upload"
    /\ args[d] = args[c]
    /\ c \in peers[d]

\* C2: of uploads with identical (user, file name, byte length) that run
\* concurrently, at most one submits an import to the backend, and of the
\* calls that return a result every one but one returns isDuplicate=true.
C2_ConcurrentUploadsCollapse ==
    \A c, d \in Calls : ConcurrentTwins(c, d) =>
        /\ ~(c \in imports /\ d \in imports)
        /\ result[c].outcome = "success" /\ result[d].outcome = "success" =>
               result[c].isDuplicate \/ result[d].isDuplicate

\* uploading < processing < {ready, error}
Rank(status) ==
    CASE status = "uploading" -> 0
      [] status = "processing" -> 1
      [] status \in {"ready", "error"} -> 2

\* The record under the key is, before and after the step, the record of
\* the same user, file name and size.
SameRecord(key) ==
    /\ key \in DOMAIN uploadedFiles
    /\ key \in DOMAIN uploadedFiles'
    /\ uploadedFiles'[key].userId = uploadedFiles[key].userId
    /\ uploadedFiles'[key].fileName = uploadedFiles[key].fileName
    /\ uploadedFiles'[key].size = uploadedFiles[key].size

Keys == {fileKey(u, f, n) : u \in Users, f \in FileNames, n \in Sizes}

\* C3: no step moves the status of a record backwards in the order
\* uploading < processing < {ready, error}.
C3_StatusMovesForward ==
    [][\A key \in Keys : SameRecord(key) =>
          Rank(uploadedFiles'[key].processingStatus)
             >= Rank(uploadedFiles[key].processingStatus)]_vars

\* The key of call c's record.
KeyOf(c) == fileKey(args[c].userId, args[c].fileName, args[c].size)

\* Call c ends in this step, from its wait for the import operation.
UploadEndsAfterSubmission(c) ==
    /\ pc[c] \in {"submitting", "polling"}
    /\ pc'[c] = "done"

\* The operation of call c, as the backend last answered, has an error or
\* is not done; a call that ends on an operation not done has made its
\* maxAttempts polls.
OperationFailedOrTimedOut(c) ==
    /\ lastAnswer'[c].kind = "operation"
    /\ lastAnswer'[c].error # NoMessage \/ ~lastAnswer'[c].done

\* Lines 188, 198 and 204: the text of the error thrown then.
FailureText(c) ==
    IF lastAnswer'[c].error # NoMessage
    THEN OperationFailed(lastAnswer'[c].error)
    ELSE OperationTimedOut

RecordIsError(c, message) ==
    /\ KeyOf(c) \in DOMAIN uploadedFiles'
    /\ uploadedFiles'[KeyOf(c)].processingStatus = "error"
    /\ uploadedFiles'[KeyOf(c)].errorMessage = message

\* C6 as stated: when the import operation reports an error or is not done
\* after 60 polls, the record is marked error with the error text and the
\* call throws; it returns no success.
C6_OperationFailureIsFatal ==
    [][\A c \in Calls :
          UploadEndsAfterSubmission(c) /\ OperationFailedOrTimedOut(c) =>
             /\ result'[c] = Thrown(FailureText(c))
             /\ RecordIsError(c, FailureText(c))]_vars

\* C6: when the import operation reports an error or is not done after 60
\* polls, the record is marked error with the error text and the call
\* throws, unless the error text contains 'already exists' or 'duplicate':
\* then the record is set ready and the call returns success with
\* isDuplicate=true.
C6_OperationFailureIsFatalUnlessDuplicate ==
    [][\A c \in Calls :
          UploadEndsAfterSubmission(c) /\ OperationFailedOrTimedOut(c) =>
             IF IsDuplicateError(FailureText(c))
             THEN /\ result'[c].outcome = "success"
                  /\ result'[c].isDuplicate
                  /\ uploadedFiles'[KeyOf(c)].processingStatus = "ready"
             ELSE /\ result'[c] = Thrown(FailureText(c))
                  /\ RecordIsError(c, FailureText(c))]_vars

\* An upload has thrown after its 60th poll found the operation not done,
\* and its record is marked with the text of the timeout.
C6_Witness ==
    \E c \in Calls :
        /\ pc[c] = "done"
        /\ lastAnswer[c] = [kind |-> "operation", done |-> FALSE,
                            error |-> NoMessage]
        /\ result[c] = Thrown(OperationTimedOut)
        /\ uploadedFiles[KeyOf(c)].errorMessage = OperationTimedOut

\* C7: when an upload throws after its transient file was written, the
\* file is gone by then.
C7_FailureRemovesTransientFile ==
    [][\A c \in Calls :
          UploadEndsAfterSubmission(c) /\ result'[c].outcome = "thrown" =>
             tempPath[c] \notin tempFiles']_vars

(* -------------------------- verifier claims --------------------------- *)

\* The verifier of call c leaves its loop in this step, after
\* maxCheckAttempts polls that saw neither ACTIVE nor a fatal failure.
VerifierTimesOut(c) ==
    /\ vpc[c] = "polling"
    /\ vpc'[c] = "unlink"
    /\ verifier'[c].checkAttempts = maxCheckAttempts
    /\ ~verifier'[c].fileReady

\* The verifier of call c returns in this step.
VerifierExits(c) == vpc[c] # "done" /\ vpc'[c] = "done"

\* C8: a verifier that has made its 60 polls without seeing ACTIVE or a
\* fatal failure sets the record to error (timeout); when a verifier
\* returns, on whatever path, its transient file is removed and its record
\* is not processing.
C8_VerifierTimeout ==
    [][\A c \in Calls :
          /\ VerifierTimesOut(c) =>
                RecordIsError(c, <<"Processing timed out">>)
          /\ VerifierExits(c) =>
                /\ tempPath[c] \notin tempFiles'
                /\ uploadedFiles'[KeyOf(c)].processingStatus
                      \in {"ready", "error"}]_vars

\* A verifier has returned after its loop timed out.
C8_Witness ==
    \E c \in Calls :
        /\ vpc[c] = "done"
        /\ KeyOf(c) \in DOMAIN uploadedFiles
        /\ uploadedFiles[KeyOf(c)].errorMessage = <<"Processing timed out">>
        /\ tempPath[c] \notin tempFiles

Pending(key) ==
    /\ key \in DOMAIN uploadedFiles
    /\ uploadedFiles[key].processingStatus \in {"uploading", "processing"}

Terminal(key) ==
    /\ key \in DOMAIN uploadedFiles
    /\ uploadedFiles[key].processingStatus \in {"ready", "error"}

SomePending == \E key \in Keys : Pending(key)

AllTerminal == \A key \in DOMAIN uploadedFiles : Terminal(key)

\* C9: the import operation is polled at most 60 times and the indexing
\* state at most 60 times, and whenever a record is uploading or processing
\* a later state has every record ready or error.
C9_RecordsReachTerminalStatus ==
    /\ [](\A c \in Calls : /\ opAttempts[c] <= maxAttempts
                           /\ verifier[c].checkAttempts <= maxCheckAttempts)
    /\ SomePending ~> AllTerminal

\* A record is processing while its verifier makes its last poll but one.
C9_Witness ==
    \E c \in Calls :
        /\ Pending(KeyOf(c))
        /\ verifier[c].checkAttempts = maxCheckAttempts - 1

(* ---------------------------- status claims --------------------------- *)

\* C10: allReady of getFileProcessingStatus(u) holds iff u has a record
\* and no record of u is uploading, processing or error; processingCount
\* counts u's records that are uploading or processing, errorCount those
\* that are error.
C10_ProcessingStatus ==
    \A u \in Users \cup {""} :
        LET status == getFileProcessingStatus(uploadedFiles, u)
            mine == {k \in DOMAIN uploadedFiles :
                        uploadedFiles[k].userId = u}
            in(statuses) ==
                {k \in mine : uploadedFiles[k].processingStatus \in statuses}
        IN /\ status.allReady <=>
                 /\ mine # {}
                 /\ in({"uploading", "processing", "error"}) = {}
           /\ status.processingCount =
                 Cardinality(in({"uploading", "processing"}))
           /\ status.errorCount = Cardinality(in({"error"}))

\* One user's only record is error while another user's records are ready.
C10_Witness ==
    \E u, v \in Users :
        /\ getFileProcessingStatus(uploadedFiles, u).allReady
        /\ getFileProcessingStatus(uploadedFiles, v).errorCount = 1
        /\ getFileProcessingStatus(uploadedFiles, v).processingCount = 0

(* ---------------------------- lookup claims -------------------------- *)

\* client.files.get reports a state.
Reports(state) ==
    [state |-> state, error |-> [status |-> 0, message |-> NoMessage]]

\* The verifier of call c polls in this step and gets this answer.
Polled(c, answer) ==
    /\ vpc[c] = "polling"
    /\ verifier[c].fileDocumentName # ""
    /\ Lookup(c, answer)

\* The status of call c's record after this step.
StatusAfter(c) == uploadedFiles'[KeyOf(c)].processingStatus

\* The verifier of call c makes no poll after this step's.
StopsPolling(c) == vpc'[c] \in {"unlinkFatal", "unlink", "done"}

\* A verifier that has left its loop does not poll again.
NoLaterPoll(c) ==
    vpc[c] \in {"unlinkFatal", "unlink", "done"} => StopsPolling(c)

\* C18 as stated: with a document name, a poll that reports ACTIVE sets
\* the record to ready and a poll that reports FAILED sets it to error
\* with the state reported, no poll is made after either, and a poll that
\* reports PROCESSING leaves the record processing.
C18_PollOutcomes ==
    [][\A c \in Calls :
          /\ Polled(c, Reports("ACTIVE"))
                => StatusAfter(c) = "ready" /\ StopsPolling(c)
          /\ Polled(c, Reports("FAILED"))
                => RecordIsError(c, ProcessingFailed) /\ StopsPolling(c)
          /\ Polled(c, Reports("PROCESSING"))
                => StatusAfter(c) = "processing"
          /\ NoLaterPoll(c)
      ]_vars

\* C18, amended: as C18_PollOutcomes, but a poll that reports PROCESSING
\* leaves the record processing, and the verifier polling, when it is not
\* the 60th poll.
C18_PollOutcomesBelowCeiling ==
    [][\A c \in Calls :
          /\ Polled(c, Reports("ACTIVE"))
                => StatusAfter(c) = "ready" /\ StopsPolling(c)
          /\ Polled(c, Reports("FAILED"))
                => RecordIsError(c, ProcessingFailed) /\ StopsPolling(c)
          /\ (Polled(c, Reports("PROCESSING"))
                 /\ verifier'[c].checkAttempts < maxCheckAttempts)
                => StatusAfter(c) = "processing" /\ vpc'[c] = "polling"
          /\ NoLaterPoll(c)
      ]_vars

\* A verifier has seen FAILED at its third poll, after two polls that left
\* the record processing.
C18_Witness ==
    \E c \in Calls :
        /\ vpc[c] = "unlinkFatal"
        /\ verifier[c].checkAttempts = 3
        /\ uploadedFiles[KeyOf(c)].processingStatus = "error"
        /\ uploadedFiles[KeyOf(c)].errorMessage = ProcessingFailed

\* The verifier of call c, which has no document name, polls in this step.
PolledBlind(c) ==
    /\ vpc[c] = "polling"
    /\ verifier[c].fileDocumentName = ""
    /\ verifier'[c].checkAttempts = verifier[c].checkAttempts + 1

\* C19: a verifier without document name never calls client.files.get;
\* its first five polls leave the record processing, its sixth sets the
\* record to ready and is its last, and when it has left its loop the
\* record is ready, not error.
C19_GracePeriod ==
    [][\A c \in Calls :
          /\ PolledBlind(c)
                => /\ lookups' = lookups
                   /\ c \notin lookups
                   /\ verifier'[c].checkAttempts <= graceAttempts
                   /\ verifier'[c].checkAttempts < graceAttempts
                         => /\ StatusAfter(c) = "processing"
                            /\ vpc'[c] = "polling"
                   /\ verifier'[c].checkAttempts = graceAttempts
                         => /\ StatusAfter(c) = "ready"
                            /\ StopsPolling(c)
          /\ vpc'[c] \in {"unlink", "done"} /\ c \notin lookups'
                => StatusAfter(c) = "ready"
      ]_vars

\* A verifier without document name has returned and the record is ready.
C19_Witness ==
    \E c \in Calls :
        /\ vpc[c] = "done"
        /\ c \notin lookups
        /\ uploadedFiles[KeyOf(c)].processingStatus = "ready"

\* The answers of client.files.get that raise an error into the inner
\* catch: a thrown error, and the state FAILED.
ErrorAnswers ==
    {answer \in LookupAnswers : CheckError(answer).message # NoMessage}

\* The error is an auth failure, or it says that processing failed.
AuthOrProcessingFailure(answer) ==
    \/ answer.error.status \in {401, 403}
    \/ answer.state = "FAILED"
    \/ Includes(answer.error.message, "processing failed")

\* C20: a lookup error that is an auth failure or a processing failure
\* sets the record to error in the same poll, which is the last; any other
\* lookup error, when the poll is not the 60th, leaves the record
\* processing and the verifier polling.
C20_FatalLookupErrors ==
    [][\A c \in Calls : \A answer \in ErrorAnswers :
          Polled(c, answer)
             => IF AuthOrProcessingFailure(answer)
                THEN /\ RecordIsError(c, CheckError(answer).message)
                     /\ StopsPolling(c)
                ELSE verifier'[c].checkAttempts < maxCheckAttempts
                        => /\ StatusAfter(c) = "processing"
                           /\ vpc'[c] = "polling"
      ]_vars

(* ----------------------------- query claims -------------------------- *)

\* The calls that are queries.
Queries == {c \in Calls : args[c].kind = "query"}

\* The candidates tried are the first candidates of the list, in its order.
TriedInOrder(tried) ==
    /\ Len(tried) <= Len(modelsToTry)
    /\ \A i \in 1..Len(tried) : tried[i] = modelsToTry[i]

\* The query's call of generateContentStream has succeeded in this step.
Succeeds(c) == stream[c].state = "none" /\ stream'[c].source = "iterator"

\* C11: the candidates are tried in list order, each at most once; a
\* further candidate is tried only after the candidate before it failed
\* with status or code 404 or 400; the stream returned is the response of
\* the candidate whose call succeeded, and no candidate is tried after a
\* call succeeded.  So, when A fails with 404 or 400 and B succeeds, B's
\* stream is returned.
C11_CandidateFallback ==
    [][\A c \in Calls :
          /\ TriedInOrder(query'[c].tried)
          /\ Len(query'[c].tried) > 1 /\ query'[c].tried # query[c].tried
                => /\ query'[c].lastError.status \in {404, 400}
                      \/ query'[c].lastError.code \in {404, 400}
                   /\ stream'[c] = NoStream
          /\ Succeeds(c)
                => /\ query'[c].tried = query[c].tried
                   /\ stream'[c].model =
                         query[c].tried[Len(query[c].tried)]
                   /\ pc'[c] = "done"
          /\ pc[c] = "done" => query'[c].tried = query[c].tried
      ]_vars

\* The first candidate failed with 404 or 400 and the second one's stream
\* was returned.
C11_Witness ==
    \E c \in Queries :
        /\ query[c].tried = modelsToTry
        /\ query[c].lastError.status \in {404, 400}
        /\ stream[c].source = "iterator"
        /\ stream[c].model = modelsToTry[2]

\* The text of a message: its pieces in a row.
RECURSIVE Concat(_)
Concat(message) ==
    IF message = << >> THEN "" ELSE Head(message) \o Concat(Tail(message))

\* The text a stream of createErrorStream carries: what is written and what
\* is still to be written.
TextOf(s) == s.written \o Concat(s.pieces)

\* C12: when generateContentStream fails with status 429, whatever the
\* error's message, the query tries no further candidate and returns the
\* stream of the rate-limit text.
C12_RateLimitStops ==
    \A c \in Queries :
        query[c].lastError.status = 429
            => /\ pc[c] = "done"
               /\ stream[c].source = "message"
               /\ TextOf(stream[c]) = Concat(RateLimitExceeded)

\* The texts queryRAG answers a failure with.
Diagnostics ==
    {NoDocumentsUploaded, RateLimitExceeded, ModelConfigurationIssue,
     ConfigurationError, FileAccessIssue}
    \cup {ServiceTemporarilyUnavailable(ErrorMessage(e)) :
             e \in GenerateErrors
                   \cup {Failure(m) : m \in BackendErrors \cup {EnvError}}}

\* The queries made with a user identifier.
UserQueries == {c \in Queries : args[c].userId # ""}

\* C15: a query with a user identifier never raises: what it returns is a
\* stream, the response of a candidate or one of the diagnostic texts; it
\* is a diagnostic text when store resolution failed (no candidate was
\* called) and when the last call of generateContentStream failed.
C15_QueryAlwaysReturnsStream ==
    \A c \in UserQueries :
        /\ result[c].outcome # "thrown"
        /\ pc[c] = "done"
              => /\ result[c] = Streamed
                 /\ stream[c].state = "readable"
                 /\ \/ /\ stream[c].source = "iterator"
                       /\ stream[c].model \in
                             {modelsToTry[i] : i \in DOMAIN modelsToTry}
                    \/ /\ stream[c].source = "message"
                       /\ \E d \in Diagnostics : TextOf(stream[c]) = Concat(d)
                 /\ query[c].tried = << >> => stream[c].source = "message"
                 /\ stream[c].source = "message" /\ query[c].tried # << >>
                       => query[c].lastError # NoError

\* A query made while an upload of the same user was waiting for the
\* user's store has returned a diagnostic text, the creation of the store
\* having failed.
C15_Witness ==
    \E c \in UserQueries, d \in Calls :
        /\ args[d].kind = "upload"
        /\ args[d].userId = args[c].userId
        /\ d \in peers[c]
        /\ pc[c] = "done"
        /\ query[c].tried = << >>
        /\ stream[c].source = "message"

\* Call c is made in this step, without user identifier.
StartsWithoutUser(c) ==
    pc[c] = "idle" /\ pc'[c] # "idle" /\ args'[c].userId = ""

\* C16: a call without user identifier calls no backend and leaves the
\* store registry and the record table as they are: a query returns the
\* stream of the authentication text, whatever the question, and raises
\* nothing; an upload throws; getFileProcessingStatus reports no files and
\* allReady false.
C16_EmptyUserIdIsRejected ==
    /\ [](LET status == getFileProcessingStatus(uploadedFiles, "")
          IN status.files = {} /\ ~status.allReady)
    /\ [][\A c \in Calls :
             StartsWithoutUser(c)
                => /\ UNCHANGED << ai, userFileStores, storeCreationPromises,
                                   promise, uploadedFiles, createCalls,
                                   imports, lookups, tempFiles >>
                   /\ query'[c].tried = << >>
                   /\ pc'[c] = "done"
                   /\ args'[c].kind = "query"
                         => /\ result'[c] = Streamed
                            /\ stream'[c].source = "message"
                            /\ TextOf(stream'[c]) =
                                  Concat(AuthenticationError)
                   /\ args'[c].kind = "upload"
                         => /\ result'[c].outcome = "thrown"
                            /\ stream'[c] = NoStream
         ]_vars

\* A query and an upload were made without user identifier: the query is
\* answered, the upload has thrown.
C16_Witness ==
    \E c, d \in Calls :
        /\ args[c].kind = "query" /\ args[c].userId = ""
        /\ query[c].question = "q2"
        /\ result[c] = Streamed
        /\ args[d].kind = "upload" /\ args[d].userId = ""
        /\ result[d].outcome = "thrown"

\* The query's last call of generateContentStream failed with an error
\* that is not model-not-found, bad-request or rate-limit.
FailedOtherwise(c) ==
    /\ query[c].lastError # NoError
    /\ ~IsUnavailable(query[c].lastError)
    /\ query[c].lastError.status # 429

\* The stream carries the generic text with this error's message.
IsGeneric(s, error) ==
    /\ s.source = "message"
    /\ TextOf(s) = "**Service Temporarily Unavailable** **Error details:** "
                        \o Concat(ErrorMessage(error))

\* The error's message has one of the fragments the catch blocks take for
\* missing documents or for an inaccessible store.
SaysNoFilesOrNoAccess(error) ==
    \E f \in NoFilesFragments \cup FileAccessFragments :
        Includes(toLowerCase(ErrorMessage(error)), f)
        \/ Includes(ErrorMessage(error), f)

\* The generic text is returned only for an error outside the known
\* classes.
GenericOnlyForUnknown(c) ==
    query[c].tried # << >> /\ IsGeneric(stream[c], query[c].lastError)
       => /\ ~IsUnavailable(query[c].lastError)
          /\ query[c].lastError.status # 429
          /\ ~SaysNoFilesOrNoAccess(query[c].lastError)

\* C24 as stated: when a candidate's call fails with an error that is not
\* model-not-found, bad-request or rate-limit, no later candidate is
\* called and the query returns the generic text with the error's
\* message; the generic text is returned for no error of a known class.
C24_OtherErrorsAreGeneric ==
    \A c \in Queries :
        /\ FailedOtherwise(c)
              => /\ pc[c] = "done"
                 /\ IsGeneric(stream[c], query[c].lastError)
        /\ GenericOnlyForUnknown(c)

\* C24, amended: as C24_OtherErrorsAreGeneric, but an error whose message
\* speaks of missing documents or of an inaccessible store is answered
\* with the no-documents or the file-access text.
C24_OtherErrorsAreGenericUnlessRecognised ==
    \A c \in Queries :
        /\ FailedOtherwise(c)
              => /\ pc[c] = "done"
                 /\ IF SaysNoFilesOrNoAccess(query[c].lastError)
                    THEN /\ stream[c].source = "message"
                         /\ TextOf(stream[c]) \in
                               {Concat(NoDocumentsUploaded),
                                Concat(FileAccessIssue)}
                    ELSE IsGeneric(stream[c], query[c].lastError)
        /\ GenericOnlyForUnknown(c)

\* A candidate's call failed with status 500 and the query returned the
\* generic text with the error's message.
C24_Witness ==
    \E c \in Queries :
        /\ query[c].lastError.status = 500
        /\ pc[c] = "done"
        /\ IsGeneric(stream[c], query[c].lastError)

\* The step in which the call of the last candidate fails with this error,
\* after the calls of the candidates before it failed with model-not-found
\* or bad-request.
Exhausts(c, error) ==
    /\ pc[c] = "generating"
    /\ query[c].tried = modelsToTry
    /\ QueryFails(c, [query[c] EXCEPT !.lastError = error], error)

\* C25: when every candidate failed with model-not-found or bad-request,
\* the query ends with the error of the last candidate and answers with
\* the text for it: the model text when it is model-not-found, the
\* configuration text when it is bad-request.
C25_ExhaustedCandidates ==
    [][\A c \in Calls : \A error \in GenerateErrors :
          Exhausts(c, error) /\ IsUnavailable(error)
             => /\ query'[c].lastError = error
                /\ stream'[c].source = "message"
                /\ TextOf(stream'[c]) =
                      IF error.status = 404 \/ error.code = 404
                      THEN Concat(ModelConfigurationIssue)
                      ELSE Concat(ConfigurationError)]_vars

(* ----------------------------- stream claims ------------------------- *)

\* C13: what is written to the stream of a response is the text of the
\* chunks consumed, in their order, without the executable-code parts; a
\* chunk without text adds nothing and does not error the stream.
C13_WrittenIsTextOfChunks ==
    \A c \in Queries :
        stream[c].source = "iterator" /\ stream[c].state # "cancelled"
            => /\ stream[c].written = stream[c].expected
               /\ stream[c].state = "errored" => faults < MaxFaults

\* C14: once the reader has cancelled the stream of a response, nothing
\* more is written to it, the stream is not errored, the query's result is
\* not changed, and the source consumes no chunk beyond the one it had
\* asked for when the stream was cancelled.
C14_ClosedSinkStopsProduction ==
    [][\A c \in Queries :
          stream[c].source = "iterator" /\ stream[c].state = "cancelled"
             => /\ stream'[c].written = stream[c].written
                /\ stream'[c].state = "cancelled"
                /\ result'[c] = result[c]
                /\ stream'[c].late <= 1
      ]_vars

\* C17: a stream returned by a query ends clean: when its source has
\* stopped, the stream is closed (by its source, or by its reader's
\* cancel), and it is errored at no time, also when the response raises
\* after the stream was returned.
C17_StreamEndsCleanly ==
    \A c \in Queries :
        /\ stream[c].state # "errored"
        /\ stream[c].state # "none" /\ ~stream[c].running
              => stream[c].state \in {"closed", "cancelled"}

(* --------------------------- hand-off claims -------------------------- *)

\* The calls that are uploads.
Uploads == {c \in Calls : args[c].kind = "upload"}

\* Upload c returns success, not as a duplicate, in this step.
ReturnsSuccess(c) ==
    /\ result[c] = NoResult
    /\ result'[c].outcome = "success"
    /\ ~result'[c].isDuplicate

\* The record under call c's key is the record of c's user, file name and
\* size, and its status is this.
RecordOf(files, c, status) ==
    /\ KeyOf(c) \in DOMAIN files
    /\ files[KeyOf(c)].userId = args[c].userId
    /\ files[KeyOf(c)].fileName = args[c].fileName
    /\ files[KeyOf(c)].processingStatus = status

\* C21: when an upload returns success without isDuplicate, its import
\* operation is done without error, its record is processing and its
\* verifier has been started and waits for its first timer; a result once
\* given is not changed by what the verifier does later.
C21_SuccessHandsOff ==
    [][\A c \in Calls :
          /\ ReturnsSuccess(c)
                => /\ lastAnswer'[c].kind = "operation"
                   /\ lastAnswer'[c].done
                   /\ lastAnswer'[c].error = NoMessage
                   /\ RecordOf(uploadedFiles', c, "processing")
                   /\ vpc[c] = "none" /\ vpc'[c] = "polling"
                   /\ verifier'[c].checkAttempts = 0
          /\ result[c] # NoResult => result'[c] = result[c]
      ]_vars

\* Upload c returns or throws in this step.
UploadEnds(c) ==
    /\ args'[c].kind = "upload"
    /\ result[c] = NoResult
    /\ result'[c] # NoResult

\* What an upload answers an error of the backend with: success as a
\* duplicate when the backend's error says that the file exists already,
\* the error thrown on with this message otherwise.
AnswerTo(c, error, message) ==
    IF Includes(error, "already exists") \/ Includes(error, "duplicate")
    THEN /\ result'[c].outcome = "success"
         /\ result'[c].isDuplicate
    ELSE result'[c] = Thrown(message)

Acts(c) ==
    \/ pc'[c] # pc[c]
    \/ vpc'[c] # vpc[c]
    \/ opAttempts'[c] # opAttempts[c]
    \/ verifier'[c] # verifier[c]

\* The record under the key is changed, replaced or removed in this step.
RecordTouched(key) ==
    \/ key \notin DOMAIN uploadedFiles'
    \/ uploadedFiles'[key] # uploadedFiles[key]

\* C23: a step of a call of one user leaves the store handles and the
\* records of every other user as they are: a record is changed, replaced
\* or removed only by a call of the record's user, a store handle is never
\* changed or removed, and a handle is created for a user only by a
\* creation started for that user.
C23_UsersAreIsolated ==
    [][/\ \A key \in DOMAIN uploadedFiles :
             RecordTouched(key)
                => \E c \in Calls :
                      /\ Acts(c)
                      /\ args'[c].userId = uploadedFiles[key].userId
       /\ \A u \in DOMAIN userFileStores :
             /\ u \in DOMAIN userFileStores'
             /\ userFileStores'[u] = userFileStores[u]
       /\ \A u \in (DOMAIN userFileStores') \ DOMAIN userFileStores :
             \E q \in Calls : /\ promise[q].userId = u
                              /\ promise[q].state = "pending"
                              /\ promise'[q].state = "resolved"
      ]_vars

(* ---------------------------- verifier claims ------------------------- *)

\* The calls whose verifier was started.
Verified == {c \in Calls : vpc[c] # "none"}

\* Call c starts its verifier in this step.
StartsVerifier(c) == vpc[c] = "none" /\ vpc'[c] # "none"

\* The verifier of call c takes a turn in this step.
VerifierActs(c) == vpc[c] # "none" /\ verifier'[c] # verifier[c]

\* The record of call c's user, file name and size is there and this step
\* writes its status or replaces it.
StatusWritten(c) ==
    /\ KeyOf(c) \in DOMAIN uploadedFiles
    /\ uploadedFiles[KeyOf(c)].userId = args[c].userId
    /\ uploadedFiles[KeyOf(c)].fileName = args[c].fileName
    /\ \/ KeyOf(c) \notin DOMAIN uploadedFiles'
       \/ uploadedFiles'[KeyOf(c)].userId # args[c].userId
       \/ uploadedFiles'[KeyOf(c)].processingStatus
             # uploadedFiles[KeyOf(c)].processingStatus

\* C26: two calls whose verifiers were started are never of the same user,
\* file name and size; a verifier starts only in a step in which its
\* call's import operation is done without error; once a verifier is
\* started, a step that writes the status of its record is a turn of that
\* verifier.
C26_OneVerifierPerRecord ==
    /\ [](\A c, d \in Verified : args[c] = args[d] => c = d)
    /\ [][\A c \in Calls :
             /\ StartsVerifier(c)
                   => /\ lastAnswer'[c].kind = "operation"
                      /\ lastAnswer'[c].done
                      /\ lastAnswer'[c].error = NoMessage
             /\ c \in Verified /\ StatusWritten(c) => VerifierActs(c)]_vars

\* The record under this key has reached ready or error.
IsTerminal(key) ==
    /\ key \in DOMAIN uploadedFiles
    /\ uploadedFiles[key].processingStatus \in {"ready", "error"}

\* C28: a record whose status is ready or error stays as it is: no step
\* of an upload, of its error handling or of a verifier removes it,
\* replaces it or gives it another status.
C28_TerminalStatusStays ==
    [][\A key \in Keys :
          IsTerminal(key)
             => /\ key \in DOMAIN uploadedFiles'
                /\ uploadedFiles'[key].userId = uploadedFiles[key].userId
                /\ uploadedFiles'[key].processingStatus
                      = uploadedFiles[key].processingStatus]_vars

(* ---------------------------- registry claims ------------------------- *)

\* No user has both a cached handle and a marker.
HandleOrMarker ==
    \A u \in DOMAIN storeCreationPromises : u \notin DOMAIN userFileStores

\* C29: between the runs of the handlers no user has both a cached handle
\* and a marker of a creation in flight, and a user's marker is the
\* promise of a creation task that is still running.
C29_MarkerOnlyWhileCreating ==
    /\ HandleOrMarker
    /\ \A u \in DOMAIN storeCreationPromises :
          promise[storeCreationPromises[u]].state = "pending"

(* ---------------------------- endpoint claims ------------------------- *)

\* The requests of this user that called uploadFileToGemini and had passed
\* checkRateLimit in the window that begins at this time.
ReachedPipeline(userId, t) ==
    {c \in Calls : /\ args[c].kind = "upload"
                   /\ post[c].userId = userId
                   /\ post[c].at >= t
                   /\ post[c].at - t < RATE_LIMIT_WINDOW}

\* Request c is answered in this step.
PostAnswers(c) == post[c].state # "answered" /\ post'[c].state = "answered"

\* C27: of the requests of one user that pass checkRateLimit within one
\* window, at most MAX_UPLOADS_PER_WINDOW call uploadFileToGemini, also
\* when the requests overlap; a request answered with status 429 has not
\* called uploadFileToGemini.
C27_RateLimit ==
    /\ [](\A u \in PostUsers : \A c \in Calls :
             Cardinality(ReachedPipeline(u, post[c].at))
                 <= MAX_UPLOADS_PER_WINDOW)
    /\ [][\A c \in Calls :
             PostAnswers(c) /\ post'[c].status = 429
                => args'[c].kind = "none" /\ imports' = imports]_vars

\* C30: when a request is answered with processingStatus 'ready', the
\* record of its user, file name and size has status ready; every other
\* answer of status 200 has processingStatus 'processing'.
C30_ReadyMeansReady ==
    [][\A c \in Calls :
          PostAnswers(c) /\ post'[c].status = 200
             => /\ post'[c].processingStatus \in {"ready", "processing"}
                /\ post'[c].processingStatus = "ready"
                      => RecordOf(uploadedFiles', c, "ready")]_vars

====
